---- MODULE Spec2Model ----
(***************************************************************************)
(* Model of the multi-format content-generation flow                       *)
(* (flows/multi_format_flow.py), of the todolist work queue and its        *)
(* pollers (src/parallel/polling_manager.py, src/parallel/database.py)     *)
(* and of the line diff (src/parallel/feedback/diff_util.py).              *)
(*                                                                         *)
(* Texts produced by the generation capability are opaque tokens; a merged *)
(* report is the sequence of its section tokens with an explicit separator *)
(* token between them.                                                     *)
(***************************************************************************)
EXTENDS Integers, Sequences, FiniteSets, TLC

(***************************************************************************)
(* Bounds of the model.                                                    *)
(***************************************************************************)
MaxSections == 2       \* sections of a report form (Spec)
MaxReports == 2        \* report forms of a plan (DepSpec)
MaxSlides == 1         \* slide forms of a plan
MaxTexts == 1          \* text forms of a plan
MaxItems == 2          \* rows of the todolist table (PollSpec)
MaxCheckpoints == 1    \* checkpoint writes of a flow run (PollSpec)
MaxTextLen == 3        \* characters of a text (DiffSpec)
MaxContainers == 2     \* top-level containers of an output document (FeedbackSpec)
MaxRecords == 3        \* feedback records of one store call (StoreSpec)
MaxToolNames == 2      \* declared tool names of a section (ToolSpec)
MaxIterations == 3     \* iterations of a polling loop (LoopSpec)

(***************************************************************************)
(* Small universes the inputs are drawn from.                              *)
(***************************************************************************)
ReportKeys == {"r1", "r2"}
SlideKeys == {"s1"}
TextKeys == {"t1"}
NoTitle == "<no toc.title>"
TitleChoices == {"Intro", "Body", NoTitle}
None == "<None>"

\* Sequences over S of length 0..n
SeqsUpTo(S, n) == UNION {[1..k -> S] : k \in 0..n}

Range(s) == {s[i] : i \in DOMAIN s}

\* dict assignment d[k] = v on a function used as a dict
DictSet(d, k, v) == [x \in (DOMAIN d) \cup {k} |-> IF x = k THEN v ELSE d[x]]

\* {**a, **b}: the entries of b override those of a
DictMerge(a, b) == [x \in (DOMAIN a) \cup (DOMAIN b) |-> IF x \in DOMAIN b THEN b[x] ELSE a[x]]

EmptyDict == <<>>

(***************************************************************************)
(* The flow: phases and their listen triggers.                             *)
(***************************************************************************)
PhaseOrder == <<"create_execution_plan", "generate_reports", "generate_slides",
                "generate_texts", "save_final_results">>
Phases == Range(PhaseOrder)

\* mutant: generate_texts listens to generate_reports instead of generate_slides
ListenTriggerWrongListen(p) ==
    CASE p = "create_execution_plan" -> None
      [] p = "generate_reports" -> "create_execution_plan"
      [] p = "generate_slides" -> "generate_reports"
      [] p = "generate_texts" -> "generate_reports"
      [] p = "save_final_results" -> "generate_texts"

\* @start() / @listen("...") decorators of MultiFormatFlow
ListenTrigger(p) ==
    CASE p = "create_execution_plan" -> None
      [] p = "generate_reports" -> "create_execution_plan"
      [] p = "generate_slides" -> "generate_reports"
      [] p = "generate_texts" -> "generate_slides"
      [] p = "save_final_results" -> "generate_texts"

\* Phase / ExecutionPlan pydantic models
FormDescriptors(keys, deps) == [key : keys, dependencies : deps]
ExecutionPlans(reports, slideDeps, textDeps) ==
    [report_phase : reports,
     slide_phase : SeqsUpTo(FormDescriptors(SlideKeys, slideDeps), MaxSlides),
     text_phase : SeqsUpTo(FormDescriptors(TextKeys, textDeps), MaxTexts)]

\* Spec: plans with at most one report form, whose sections are drawn from
\* all title lists of length 0..MaxSections
SingleReportPlans == ExecutionPlans(SeqsUpTo(ReportKeys, 1), {{"r1"}}, {{"r1"}})
SectionLists == SeqsUpTo(TitleChoices, MaxSections)

\* DepSpec: plans with 0..MaxReports report forms and every dependency set on
\* the slide forms; a report has at most one section
MultiReportPlans ==
    ExecutionPlans(SeqsUpTo(ReportKeys, MaxReports), SUBSET ReportKeys, {{}, {"r1"}})
ShortSectionLists == SeqsUpTo({"Intro"}, 1)

\* section.get('toc', {}).get('title', 'unknown')
TitleOf(section) == IF section = NoTitle THEN "unknown" ELSE section

SEP == "\n\n---\n\n"
\* f"... {str(e)}": the failure placeholder string of _generate_section_contents
FailPlaceholder == "section generation failed"

\* raw output of the i-th section unit of a report key
SectionOutput(i) == <<"section", i>>

\* content written for task i: task.result() or the failure placeholder
ResultContent(i, outcome) == IF outcome = "ok" THEN SectionOutput(i) ELSE FailPlaceholder

\* sep.join(parts)
RECURSIVE Join(_)
Join(parts) ==
    IF Len(parts) = 0 THEN <<>>
    ELSE IF Len(parts) = 1 THEN <<parts[1]>>
    ELSE <<parts[1], SEP>> \o Join(Tail(parts))

\* [contents[title] for title in ordered_titles if title in contents]
RECURSIVE PresentParts(_, _)
PresentParts(secs, contents) ==
    IF Len(secs) = 0 THEN <<>>
    ELSE LET t == TitleOf(Head(secs)) IN
         (IF t \in DOMAIN contents THEN <<contents[t]>> ELSE <<>>)
            \o PresentParts(Tail(secs), contents)

\* mutant: the parts are put together without the separator
MergedContentNoSeparator(secs, contents) == PresentParts(secs, contents)

MergedContent(secs, contents) == Join(PresentParts(secs, contents))

VARIABLES
    started,            \* phases whose method has been entered, in order
    completed,          \* phases whose method has returned
    failed,             \* a phase raised (_handle_error): the run is aborted
    ids,                \* state.todo_id / proc_inst_id / proc_form_id present?
    form_types,         \* keys of state.form_types
    execution_plan,     \* state.execution_plan
    reportIdx,          \* position of the for loop of generate_reports
    rstep,              \* position inside the loop body
    sections,           \* sections of the report form being generated
    sectionsFor,        \* index of the report form `sections` belongs to
    taskState,          \* per section task: "running", "ok", "fail"
    pending_tasks,      \* pending_tasks of _generate_section_contents
    done_tasks,         \* done_tasks still to be iterated
    section_contents,   \* state.section_contents
    report_contents,    \* state.report_contents
    slide_contents,     \* state.slide_contents
    text_contents,      \* state.text_contents
    slidePos,           \* next slide invocation of generate_slides
    slideCalls,         \* per slide form: number of slide crew invocations
    textCalls,          \* per text form: number of form crew invocations it was part of
    row,                \* the todolist row of the work item
    ckptWrites,         \* save_task_result(final=False) calls that succeeded
    finalWrites,        \* save_task_result(final=True) calls that succeeded
    lastWrite           \* kind of the last persistence write

flowVars == <<started, completed, failed, ids, form_types, execution_plan, reportIdx, rstep,
              sections, sectionsFor, taskState, pending_tasks, done_tasks,
              section_contents, report_contents, slide_contents, text_contents,
              slidePos, slideCalls, textCalls, row, ckptWrites, finalWrites, lastWrite>>

\* the todolist work queue and its pollers
VARIABLES
    deployment,         \* which claim operation the pollers run
    todolist,           \* the todolist table: row id -> row
    rowLock,            \* per row: the poller whose open transaction locks it
    pollerPc,           \* per poller: position in the polling loop
    bundle,             \* per poller: id of the row of its bundle, 0 if none
    flowWrites          \* per poller: save_task_result calls its flow run still makes

pollVars == <<deployment, todolist, rowLock, pollerPc, bundle, flowWrites>>

\* the line diff
VARIABLES
    original,           \* argument of extract_changes
    modified,           \* argument of extract_changes
    changes             \* its return value in a sequence, empty before the call

diffVars == <<original, modified, changes>>

\* the comparison of a draft with the output and the feedback generation
VARIABLES
    draft_json,     \* the draft column of the completed work item
    output_json,    \* its output column
    diff_result,    \* <<>> or <<the result of compare_report_changes>>
    fbPc,           \* position of the feedback run
    llmOutcome,     \* what the generation call met, "none" before it
    llmCalls,       \* number of generation calls made
    feedback_list,  \* the list the feedback generation returned
    fbRaised,       \* an exception left the feedback generation
    fbColumn        \* the feedback column of the work item

fbVars == <<draft_json, output_json, diff_result, fbPc, llmOutcome, llmCalls,
            feedback_list, fbRaised, fbColumn>>

\* the cancellation watch of the poller
VARIABLES
    cancelled       \* the watch routine saw the cancellation flag and ended the flow

watchVars == <<cancelled>>

\* the memory store of the feedback analyzer, the context summarizer and the
\* tool loader, each called once on its inputs
VARIABLES
    mem_feedback_list, memAttempted, memLogged, memPc,
    sum_outputs, sum_feedbacks, sum_contents, sumCalls, sumResult, sumRaised, sumPc,
    tool_names, loader, loadable, tools, toolPc,
    package, raw_result, parse_form_keys, parsed_contents, parsePc,
    obs_package, obs_site, obs_fault, obs_backend, obsPropagated, obsPersisted, obsPc
memVars == <<mem_feedback_list, memAttempted, memLogged, memPc>>
sumVars == <<sum_outputs, sum_feedbacks, sum_contents, sumCalls, sumResult, sumRaised, sumPc>>
toolVars == <<tool_names, loader, loadable, tools, toolPc>>
parseVars == <<package, raw_result, parse_form_keys, parsed_contents, parsePc>>
obsVars == <<obs_package, obs_site, obs_fault, obs_backend, obsPropagated, obsPersisted, obsPc>>

\* one polling loop of polling_manager.py
VARIABLES
    loop_kind,          \* which of the two loops runs
    loop_fault,         \* what goes wrong in the current iteration
    loopPc,             \* fetch, process, sleep or terminated
    loopIterations,     \* iterations begun
    loopLogged          \* errors logged by the except clause of the loop
loopVars == <<loop_kind, loop_fault, loopPc, loopIterations, loopLogged>>

\* the feedback polling: the completed rows and the pollers that claim them
VARIABLES
    done_rows,          \* the completed rows of the todolist table
    doneLock,           \* the transaction that holds the lock of a row
    claimPc,            \* where each feedback poller is
    claimed,            \* the row of the bundle a poller holds, 0 for none
    returned            \* how often a row was returned by a claim
claimVars == <<done_rows, doneLock, claimPc, claimed, returned>>

\* one run of a report crew and the crew context around it
VARIABLES
    crew_context,       \* the values of the five context variables
    context_before,     \* their values immediately before the call
    crew_inputs,        \* the inputs of kickoff_async
    crew_tokens,        \* the tokens set_crew_context returned
    crewPc              \* before, running, returned or raised
ctxVars == <<crew_context, context_before, crew_inputs, crew_tokens, crewPc>>
extVars == <<loopVars, claimVars, ctxVars>>

utilVars == <<memVars, sumVars, toolVars, parseVars, obsVars, extVars>>

vars == <<flowVars, pollVars, diffVars, fbVars, watchVars, utilVars>>

\* mutant: the error is logged and swallowed, the method goes on
RunningSwallowsError(p) == p \in Range(started) /\ p \notin completed

\* a method's coroutine is live: entered, not returned, no exception raised out of it
Running(p) == p \in Range(started) /\ p \notin completed /\ ~failed

\* the flow is launched for a claimed todolist row, so todo_id is set;
\* proc_inst_id and proc_form_id are nullable inputs
IdChoices == {[todo_id |-> TRUE, proc_inst_id |-> TRUE, proc_form_id |-> TRUE],
              [todo_id |-> TRUE, proc_inst_id |-> FALSE, proc_form_id |-> TRUE],
              [todo_id |-> TRUE, proc_inst_id |-> TRUE, proc_form_id |-> FALSE]}

InitFlow ==
    /\ started = <<>>
    /\ completed = {}
    /\ failed = FALSE
    /\ ids \in IdChoices
    /\ form_types \in SUBSET TextKeys
    /\ execution_plan = None
    /\ reportIdx = 0
    /\ rstep = "idle"
    /\ sections = <<>>
    /\ sectionsFor = 0
    /\ taskState = <<>>
    /\ pending_tasks = {}
    /\ done_tasks = {}
    /\ section_contents = EmptyDict
    /\ report_contents = EmptyDict
    /\ slide_contents = EmptyDict
    /\ text_contents = EmptyDict
    /\ slidePos = 0
    /\ slideCalls = <<>>
    /\ textCalls = <<>>
    /\ row = [draft |-> None, draft_status |-> "STARTED"]
    /\ ckptWrites = 0
    /\ finalWrites = 0
    /\ lastWrite = None

(***************************************************************************)
(* Flow actions.                                                           *)
(***************************************************************************)
Complete(p) == completed' = completed \cup {p}

\* the flow engine enters a method when its trigger has returned
StartPhase(p) ==
    /\ ~failed
    /\ p \notin Range(started)
    /\ ListenTrigger(p) = None \/ ListenTrigger(p) \in completed
    /\ started' = Append(started, p)
    /\ reportIdx' = IF p = "generate_reports" THEN 1 ELSE reportIdx
    /\ rstep' = IF p = "generate_reports" THEN "match" ELSE rstep
    /\ slidePos' = IF p = "generate_slides" THEN 1 ELSE slidePos
    /\ UNCHANGED <<completed, failed, ids, form_types, execution_plan, sections, sectionsFor,
                   taskState, pending_tasks, done_tasks, section_contents, report_contents,
                   slide_contents, text_contents, slideCalls, textCalls, row,
                   ckptWrites, finalWrites, lastWrite>>
    /\ UNCHANGED <<pollVars, diffVars, fbVars, watchVars, utilVars>>

\* _handle_error: the phase raises
Raise ==
    /\ failed' = TRUE

CreateExecutionPlan(plans) ==
    /\ Running("create_execution_plan")
    /\ \/ \E plan \in plans :
            /\ execution_plan' = plan
            /\ slideCalls' = [i \in 1..Len(plan.slide_phase) |-> 0]
            /\ textCalls' = [i \in 1..Len(plan.text_phase) |-> 0]
            /\ Complete("create_execution_plan")
            /\ UNCHANGED failed
       \/ /\ Raise
          /\ UNCHANGED <<execution_plan, slideCalls, textCalls, completed>>
    /\ UNCHANGED <<started, ids, form_types, reportIdx, rstep, sections, sectionsFor,
                   taskState, pending_tasks, done_tasks, section_contents, report_contents,
                   slide_contents, text_contents, slidePos, row, ckptWrites, finalWrites, lastWrite>>
    /\ UNCHANGED <<pollVars, diffVars, fbVars, watchVars, utilVars>>

ReportForms == execution_plan.report_phase
CurrentReportKey == ReportForms[sectionsFor]

\* mutant: the sections of the next report key are launched as soon as the
\* units of the current one were collected, before its final merge
CreateReportSectionsBeforeMerge(lists) ==
    /\ Running("generate_reports")
    /\ rstep \in {"match", "merge"}
    /\ LET idx == IF rstep = "merge" THEN reportIdx + 1 ELSE reportIdx IN
         /\ idx <= Len(ReportForms)
         /\ reportIdx' = idx
         /\ \E secs \in lists :
              /\ sections' = secs
              /\ sectionsFor' = idx
              /\ section_contents' = DictSet(section_contents, ReportForms[idx], EmptyDict)
              /\ taskState' = [i \in 1..Len(secs) |-> "running"]
              /\ pending_tasks' = 1..Len(secs)
              /\ done_tasks' = {}
              /\ rstep' = IF Len(secs) = 0 THEN "merge" ELSE "collect"
    /\ UNCHANGED <<started, completed, failed, ids, form_types, execution_plan,
                   report_contents, slide_contents, text_contents, slidePos, slideCalls,
                   textCalls, row, ckptWrites, finalWrites, lastWrite>>
    /\ UNCHANGED <<pollVars, diffVars, fbVars, watchVars, utilVars>>

\* body of the for loop of generate_reports up to the first wait:
\* _create_report_sections, the two state assignments, the creation of the tasks
CreateReportSections(lists) ==
    /\ Running("generate_reports")
    /\ rstep = "match"
    /\ reportIdx <= Len(ReportForms)
    /\ \/ \E secs \in lists :
            /\ sections' = secs
            /\ sectionsFor' = reportIdx
            /\ section_contents' = DictSet(section_contents, ReportForms[reportIdx], EmptyDict)
            /\ taskState' = [i \in 1..Len(secs) |-> "running"]
            /\ pending_tasks' = 1..Len(secs)
            /\ done_tasks' = {}
            /\ rstep' = IF Len(secs) = 0 THEN "merge" ELSE "collect"
            /\ UNCHANGED failed
       \/ /\ Raise
          /\ UNCHANGED <<sections, sectionsFor, section_contents, taskState, pending_tasks,
                         done_tasks, rstep>>
    /\ UNCHANGED <<started, completed, ids, form_types, execution_plan, reportIdx,
                   report_contents, slide_contents, text_contents, slidePos, slideCalls,
                   textCalls, row, ckptWrites, finalWrites, lastWrite>>
    /\ UNCHANGED <<pollVars, diffVars, fbVars, watchVars, utilVars>>

\* a section unit (_create_single_section) returns or raises
SectionResolves(i) ==
    /\ i \in DOMAIN taskState
    /\ taskState[i] = "running"
    /\ \E outcome \in {"ok", "fail"} : taskState' = [taskState EXCEPT ![i] = outcome]
    /\ UNCHANGED <<started, completed, failed, ids, form_types, execution_plan, reportIdx, rstep,
                   sections, sectionsFor, pending_tasks, done_tasks, section_contents,
                   report_contents, slide_contents, text_contents, slidePos, slideCalls,
                   textCalls, row, ckptWrites, finalWrites, lastWrite>>
    /\ UNCHANGED <<pollVars, diffVars, fbVars, watchVars, utilVars>>

\* mutant: only one of the resolved tasks is kept for handling
WaitFirstCompletedKeepsOne ==
    /\ Running("generate_reports")
    /\ rstep = "collect"
    /\ done_tasks = {}
    /\ LET resolved == {i \in pending_tasks : taskState[i] # "running"} IN
         /\ resolved # {}
         /\ done_tasks' = {CHOOSE i \in resolved : TRUE}
         /\ pending_tasks' = pending_tasks \ resolved
    /\ UNCHANGED <<started, completed, failed, ids, form_types, execution_plan, reportIdx, rstep,
                   sections, sectionsFor, taskState, section_contents, report_contents,
                   slide_contents, text_contents, slidePos, slideCalls, textCalls, row,
                   ckptWrites, finalWrites, lastWrite>>
    /\ UNCHANGED <<pollVars, diffVars, fbVars, watchVars, utilVars>>

\* asyncio.wait(pending_tasks, return_when=FIRST_COMPLETED)
WaitFirstCompleted ==
    /\ Running("generate_reports")
    /\ rstep = "collect"
    /\ done_tasks = {}
    /\ LET resolved == {i \in pending_tasks : taskState[i] # "running"} IN
         /\ resolved # {}
         /\ done_tasks' = resolved
         /\ pending_tasks' = pending_tasks \ resolved
    /\ UNCHANGED <<started, completed, failed, ids, form_types, execution_plan, reportIdx, rstep,
                   sections, sectionsFor, taskState, section_contents, report_contents,
                   slide_contents, text_contents, slidePos, slideCalls, textCalls, row,
                   ckptWrites, finalWrites, lastWrite>>
    /\ UNCHANGED <<pollVars, diffVars, fbVars, watchVars, utilVars>>

\* mutant: a checkpoint stores the content of the current report key only
SaveTaskResultCurrentKeyOnly(r, payload, final) ==
    IF final THEN [r EXCEPT !.draft = payload, !.draft_status = "COMPLETED"]
    ELSE [r EXCEPT !.draft = [k \in {CurrentReportKey} |-> payload[k]]]

\* save_task_result(todo_id, payload, final): _save_intermediate_result / _save_final_result
SaveTaskResult(r, payload, final) ==
    IF final THEN [r EXCEPT !.draft = payload, !.draft_status = "COMPLETED"]
    ELSE [r EXCEPT !.draft = payload]

\* one iteration of `for task in done_tasks`: the content or the failure
\* placeholder is stored under the title, then _save_intermediate_result
HandleDone(i) ==
    /\ Running("generate_reports")
    /\ rstep = "collect"
    /\ i \in done_tasks
    /\ LET key == CurrentReportKey
           contents == DictSet(section_contents[key], TitleOf(sections[i]),
                               ResultContent(i, taskState[i]))
           merged == MergedContent(sections, contents)
           reports == DictSet(report_contents, key, merged)
       IN /\ section_contents' = DictSet(section_contents, key, contents)
          /\ report_contents' = reports
          /\ IF ids.todo_id /\ ids.proc_form_id
             THEN \/ /\ row' = SaveTaskResult(row, reports, FALSE)
                     /\ ckptWrites' = ckptWrites + 1
                     /\ lastWrite' = "intermediate"
                     /\ UNCHANGED failed
                  \/ /\ Raise
                     /\ UNCHANGED <<row, ckptWrites, lastWrite>>
             ELSE UNCHANGED <<row, ckptWrites, lastWrite, failed>>
    /\ done_tasks' = done_tasks \ {i}
    /\ rstep' = IF failed' THEN rstep
                ELSE IF done_tasks' = {} /\ pending_tasks = {} THEN "merge" ELSE "collect"
    /\ UNCHANGED <<started, completed, ids, form_types, execution_plan, reportIdx, sections,
                   sectionsFor, taskState, pending_tasks, slide_contents, text_contents,
                   slidePos, slideCalls, textCalls, finalWrites>>
    /\ UNCHANGED <<pollVars, diffVars, fbVars, watchVars, utilVars>>

\* _merge_report_sections, then the next iteration of the for loop
MergeReportSections ==
    /\ Running("generate_reports")
    /\ rstep = "merge"
    /\ report_contents' = DictSet(report_contents, CurrentReportKey,
                                  MergedContent(sections, section_contents[CurrentReportKey]))
    /\ reportIdx' = reportIdx + 1
    /\ rstep' = "match"
    /\ UNCHANGED <<started, completed, failed, ids, form_types, execution_plan, sections,
                   sectionsFor, taskState, pending_tasks, done_tasks, section_contents,
                   slide_contents, text_contents, slidePos, slideCalls, textCalls, row,
                   ckptWrites, finalWrites, lastWrite>>
    /\ UNCHANGED <<pollVars, diffVars, fbVars, watchVars, utilVars>>

\* return self.state.section_contents
GenerateReportsReturn ==
    /\ Running("generate_reports")
    /\ rstep = "match"
    /\ reportIdx > Len(ReportForms)
    /\ Complete("generate_reports")
    /\ rstep' = "idle"
    /\ UNCHANGED <<started, failed, ids, form_types, execution_plan, reportIdx, sections,
                   sectionsFor, taskState, pending_tasks, done_tasks, section_contents,
                   report_contents, slide_contents, text_contents, slidePos, slideCalls,
                   textCalls, row, ckptWrites, finalWrites, lastWrite>>
    /\ UNCHANGED <<pollVars, diffVars, fbVars, watchVars, utilVars>>

\* keys of a dict filled in the order of `forms`, in insertion order
RECURSIVE InsertionOrder(_, _)
InsertionOrder(forms, seen) ==
    IF Len(forms) = 0 THEN <<>>
    ELSE IF Head(forms) \in seen THEN InsertionOrder(Tail(forms), seen)
    ELSE <<Head(forms)>> \o InsertionOrder(Tail(forms), seen \cup {Head(forms)})

\* self.state.report_contents.items(), keys only
ReportItems ==
    SelectSeq(InsertionOrder(execution_plan.report_phase, {}),
              LAMBDA k : k \in DOMAIN report_contents)

\* mutant: the dependency check of _create_slides is missing
RECURSIVE CreateSlidesCallsNoDependencyCheck(_, _, _)
CreateSlidesCallsNoDependencyCheck(forms, from, report_key) ==
    IF from > Len(forms) THEN <<>>
    ELSE <<[form |-> from, source |-> report_key]>>
         \o CreateSlidesCallsNoDependencyCheck(forms, from + 1, report_key)

\* _create_slides(content, report_key): the slide forms it invokes the crew for
RECURSIVE CreateSlidesCalls(_, _, _)
CreateSlidesCalls(forms, from, report_key) ==
    IF from > Len(forms) THEN <<>>
    ELSE (IF report_key # None /\ report_key \notin forms[from].dependencies
          THEN <<>>
          ELSE <<[form |-> from, source |-> report_key]>>)
         \o CreateSlidesCalls(forms, from + 1, report_key)

RECURSIVE SlidesFromReports(_, _)
SlidesFromReports(forms, keys) ==
    IF Len(keys) = 0 THEN <<>>
    ELSE CreateSlidesCalls(forms, 1, Head(keys)) \o SlidesFromReports(forms, Tail(keys))

\* the crew invocations of generate_slides, in order
SlideCallList ==
    IF DOMAIN report_contents # {}
    THEN SlidesFromReports(execution_plan.slide_phase, ReportItems)
    ELSE CreateSlidesCalls(execution_plan.slide_phase, 1, None)

\* one slide crew kickoff inside _create_slides
CreateSlides ==
    /\ Running("generate_slides")
    /\ slidePos <= Len(SlideCallList)
    /\ LET call == SlideCallList[slidePos]
           form == execution_plan.slide_phase[call.form]
       IN /\ slideCalls' = [slideCalls EXCEPT ![call.form] = @ + 1]
          /\ \/ /\ slide_contents' = DictSet(slide_contents, form.key, <<"slide", call.source>>)
                /\ slidePos' = slidePos + 1
                /\ UNCHANGED failed
             \/ /\ Raise
                /\ UNCHANGED <<slide_contents, slidePos>>
    /\ UNCHANGED <<started, completed, ids, form_types, execution_plan, reportIdx, rstep,
                   sections, sectionsFor, taskState, pending_tasks, done_tasks,
                   section_contents, report_contents, text_contents, textCalls, row,
                   ckptWrites, finalWrites, lastWrite>>
    /\ UNCHANGED <<pollVars, diffVars, fbVars, watchVars, utilVars>>

\* return self.state.slide_contents
GenerateSlidesReturn ==
    /\ Running("generate_slides")
    /\ slidePos > Len(SlideCallList)
    /\ Complete("generate_slides")
    /\ UNCHANGED <<started, failed, ids, form_types, execution_plan, reportIdx, rstep,
                   sections, sectionsFor, taskState, pending_tasks, done_tasks,
                   section_contents, report_contents, slide_contents, text_contents, slidePos,
                   slideCalls, textCalls, row, ckptWrites, finalWrites, lastWrite>>
    /\ UNCHANGED <<pollVars, diffVars, fbVars, watchVars, utilVars>>

\* text forms of the plan whose key matches an entry of form_types
TextTargets == {i \in DOMAIN execution_plan.text_phase :
                    execution_plan.text_phase[i].key \in form_types}

\* mutant: the parse fallback runs although no form crew was called
TextsWithoutFormsStoresDefault(contents) == DictSet(contents, "text_result", <<"text", "raw">>)

\* the text map when no text form matched: no form crew is called and the map
\* is returned as it is
TextsWithoutForms(contents) == contents

\* generate_texts: one form crew kickoff for all matched forms, _parse_text_results
GenerateTexts ==
    /\ Running("generate_texts")
    /\ IF TextTargets # {}
       THEN /\ textCalls' = [i \in DOMAIN textCalls |->
                                IF i \in TextTargets THEN textCalls[i] + 1 ELSE textCalls[i]]
            /\ \/ \* the result parses to a dict keyed by the form keys
                  /\ text_contents' =
                        DictMerge(text_contents,
                                  [k \in {execution_plan.text_phase[i].key : i \in TextTargets}
                                      |-> <<"text", k>>])
                  /\ Complete("generate_texts")
                  /\ UNCHANGED failed
               \/ \* not a dict, or json.JSONDecodeError
                  /\ text_contents' = DictSet(text_contents, "text_result", <<"text", "raw">>)
                  /\ Complete("generate_texts")
                  /\ UNCHANGED failed
               \/ /\ Raise
                  /\ UNCHANGED <<text_contents, completed>>
       ELSE /\ text_contents' = TextsWithoutForms(text_contents)
            /\ Complete("generate_texts")
            /\ UNCHANGED <<textCalls, failed>>
    /\ UNCHANGED <<started, ids, form_types, execution_plan, reportIdx, rstep, sections,
                   sectionsFor, taskState, pending_tasks, done_tasks, section_contents,
                   report_contents, slide_contents, slidePos, slideCalls, row, ckptWrites,
                   finalWrites, lastWrite>>
    /\ UNCHANGED <<pollVars, diffVars, fbVars, watchVars, utilVars>>

\* mutant: only the reports are collected into the final result
AllResultsReportsOnly == report_contents

\* {**report_contents, **slide_contents, **text_contents}
AllResults == DictMerge(DictMerge(report_contents, slide_contents), text_contents)

\* save_final_results
SaveFinalResults ==
    /\ Running("save_final_results")
    /\ IF ids.todo_id /\ ids.proc_inst_id /\ DOMAIN AllResults # {}
       THEN \/ /\ row' = SaveTaskResult(row, AllResults, TRUE)
               /\ finalWrites' = finalWrites + 1
               /\ lastWrite' = "final"
               /\ Complete("save_final_results")
               /\ UNCHANGED failed
            \/ /\ Raise
               /\ UNCHANGED <<row, finalWrites, lastWrite, completed>>
       ELSE /\ Complete("save_final_results")
            /\ UNCHANGED <<row, finalWrites, lastWrite, failed>>
    /\ UNCHANGED <<started, ids, form_types, execution_plan, reportIdx, rstep, sections,
                   sectionsFor, taskState, pending_tasks, done_tasks, section_contents,
                   report_contents, slide_contents, text_contents, slidePos, slideCalls,
                   textCalls, ckptWrites>>
    /\ UNCHANGED <<pollVars, diffVars, fbVars, watchVars, utilVars>>

NextFlow(plans, lists) ==
    \/ \E p \in Phases : StartPhase(p)
    \/ CreateExecutionPlan(plans)
    \/ CreateReportSections(lists)
    \/ \E i \in DOMAIN taskState : SectionResolves(i)
    \/ WaitFirstCompleted
    \/ \E i \in done_tasks : HandleDone(i)
    \/ MergeReportSections
    \/ GenerateReportsReturn
    \/ CreateSlides
    \/ GenerateSlidesReturn
    \/ GenerateTexts
    \/ SaveFinalResults

(***************************************************************************)
(* The todolist work queue and its pollers.                                *)
(*                                                                         *)
(* A poller is one running service instance: its polling loop claims one   *)
(* pending row, runs the flow for it and goes back to polling.  The two    *)
(* claim operations of the repository are modelled, one per deployment:    *)
(* polling_manager.fetch_pending_tasks keeps the row locked in the open    *)
(* transaction of the returned connection, database.fetch_pending_task     *)
(* marks the row STARTED and commits.  Both return the same bundle         *)
(* (row, connection, cursor), which process_new_task consumes.             *)
(***************************************************************************)

Pollers == {"p1", "p2"}
Deployments == {"polling_manager", "database"}
TodoIds == 1 .. MaxItems

\* rows an activity start inserts: status IN_PROGRESS, no draft yet
NewRows == [agent_mode : {"DRAFT", "COMPLETE"}, status : {"IN_PROGRESS"},
            draft : {"NULL"}, draft_status : {"NULL"}, consumer : {None},
            output : {"NULL"}, proc_inst_id : BOOLEAN]

InitPoll ==
    /\ deployment \in Deployments
    /\ todolist \in [TodoIds -> NewRows]
    /\ rowLock = [i \in TodoIds |-> None]
    /\ pollerPc = [p \in Pollers |-> "poll"]
    /\ bundle = [p \in Pollers |-> 0]
    /\ flowWrites = [p \in Pollers |-> <<>>]

\* mutant: the draft an except branch stores counts as no draft
DraftIsEmptyOrEmptyObject(r) == r.draft \in {"NULL", "", "EMPTY", "{}"}

\* draft IS NULL OR draft::text = '' OR draft::text = 'EMPTY'
DraftIsEmpty(r) == r.draft \in {"NULL", "", "EMPTY"}

\* WHERE clause of polling_manager.fetch_pending_tasks
PendingForPollingManager(r) ==
    r.agent_mode = "DRAFT" /\ DraftIsEmpty(r) /\ r.status = "IN_PROGRESS"

\* WHERE clause of database.fetch_pending_task
PendingForDatabase(r) ==
    /\ r.status = "IN_PROGRESS"
    /\ \/ r.agent_mode = "DRAFT" /\ DraftIsEmpty(r) /\ r.draft_status = "NULL"
       \/ r.draft_status = "FB_REQUESTED"

Pending(r) == IF deployment = "polling_manager" THEN PendingForPollingManager(r)
              ELSE PendingForDatabase(r)

\* mutant: a plain SELECT, without FOR UPDATE SKIP LOCKED
SelectableIgnoringLocks(i) == Pending(todolist[i])

\* ... FOR UPDATE SKIP LOCKED: rows locked by another transaction are skipped
Selectable(i) == Pending(todolist[i]) /\ rowLock[i] = None

\* ORDER BY start_date ASC LIMIT 1: ids are in start_date order
FirstSelectable(i) == Selectable(i) /\ \A j \in TodoIds : Selectable(j) => i <= j

\* conn.commit() / conn.rollback() / conn.close() of poller p's connection
ReleasedBy(p) == [i \in TodoIds |-> IF rowLock[i] = p THEN None ELSE rowLock[i]]

\* an UPDATE of row i by a transaction of poller p's connection waits while
\* another transaction holds the row lock
CanUpdate(i, holder) == rowLock[i] \in {None, holder}

\* polling_manager.fetch_pending_tasks: the row stays locked by the open
\* transaction of the connection handed to process_new_task
FetchPendingTasks(p) ==
    /\ deployment = "polling_manager"
    /\ pollerPc[p] = "poll"
    /\ \E i \in TodoIds :
        /\ FirstSelectable(i)
        /\ rowLock' = [rowLock EXCEPT ![i] = p]
        /\ bundle' = [bundle EXCEPT ![p] = i]
    /\ pollerPc' = [pollerPc EXCEPT ![p] = "process"]
    /\ UNCHANGED <<deployment, todolist, flowWrites>>
    /\ UNCHANGED <<flowVars, diffVars, fbVars, watchVars, utilVars>>

\* database.fetch_pending_task, the SELECT ... FOR UPDATE SKIP LOCKED
FetchPendingTaskSelect(p) ==
    /\ deployment = "database"
    /\ pollerPc[p] = "poll"
    /\ \E i \in TodoIds :
        /\ FirstSelectable(i)
        /\ rowLock' = [rowLock EXCEPT ![i] = p]
        /\ bundle' = [bundle EXCEPT ![p] = i]
    /\ pollerPc' = [pollerPc EXCEPT ![p] = "selected"]
    /\ UNCHANGED <<deployment, todolist, flowWrites>>
    /\ UNCHANGED <<flowVars, diffVars, fbVars, watchVars, utilVars>>

\* database.fetch_pending_task, the UPDATE and the commit; or the except
\* branch: rollback, close, raise (the polling loop logs and goes on)
FetchPendingTaskUpdate(p) ==
    /\ pollerPc[p] = "selected"
    /\ rowLock' = ReleasedBy(p)
    /\ \/ /\ todolist' = [todolist EXCEPT ![bundle[p]].draft_status = "STARTED",
                                          ![bundle[p]].consumer = p]
          /\ pollerPc' = [pollerPc EXCEPT ![p] = "process"]
          /\ UNCHANGED bundle
       \/ /\ pollerPc' = [pollerPc EXCEPT ![p] = "poll"]
          /\ bundle' = [bundle EXCEPT ![p] = 0]
          /\ UNCHANGED todolist
    /\ UNCHANGED <<deployment, flowWrites>>
    /\ UNCHANGED <<flowVars, diffVars, fbVars, watchVars, utilVars>>

\* the save_task_result calls of one flow run, in order: one checkpoint per
\* handled section task while proc_inst_id is set, then the final save when
\* any result exists; a row without proc_inst_id is never written by the flow
RECURSIVE Checkpoints(_)
Checkpoints(n) == IF n = 0 THEN <<>> ELSE <<"intermediate">> \o Checkpoints(n - 1)

WritePlans(r) ==
    IF r.proc_inst_id
    THEN {Checkpoints(n) \o (IF n > 0 \/ more THEN <<"final">> ELSE <<>>) :
            n \in 0 .. MaxCheckpoints, more \in BOOLEAN}
    ELSE {<<>>}

\* mutant: the checkpoint write also closes the item, as the final write does
SaveIntermediateResultReleases(r) ==
    [r EXCEPT !.draft = "checkpoint", !.draft_status = "COMPLETED", !.consumer = None]

\* database._save_intermediate_result: UPDATE todolist SET draft
SaveIntermediateResult(r) == [r EXCEPT !.draft = "checkpoint"]

\* database._save_final_result
SaveFinalResult(r) ==
    IF r.agent_mode = "COMPLETE"
    THEN [r EXCEPT !.output = "final", !.draft = "final", !.status = "SUBMITTED",
                   !.draft_status = "COMPLETED", !.consumer = None]
    ELSE [r EXCEPT !.draft = "final", !.draft_status = "COMPLETED", !.consumer = None]

\* the end of process_new_task: UPDATE todolist SET draft on the bundle's
\* connection, commit, then the finally block closes cursor and connection
StoreDraftAndClose(p, draft) ==
    /\ CanUpdate(bundle[p], p)
    /\ todolist' = [todolist EXCEPT ![bundle[p]].draft = draft]
    /\ rowLock' = ReleasedBy(p)
    /\ bundle' = [bundle EXCEPT ![p] = 0]
    /\ flowWrites' = [flowWrites EXCEPT ![p] = <<>>]
    /\ pollerPc' = [pollerPc EXCEPT ![p] = "poll"]
    /\ UNCHANGED deployment

\* process_new_task up to flow.kickoff_async(); a failing lookup before the
\* flow takes the except branch
KickoffFlow(p) ==
    /\ pollerPc[p] = "process"
    /\ \/ /\ flowWrites' \in {[flowWrites EXCEPT ![p] = w] : w \in WritePlans(todolist[bundle[p]])}
          /\ pollerPc' = [pollerPc EXCEPT ![p] = "flow"]
          /\ UNCHANGED <<deployment, todolist, rowLock, bundle>>
       \/ StoreDraftAndClose(p, "{}")
    /\ UNCHANGED <<flowVars, diffVars, fbVars, watchVars, utilVars>>

\* the flow awaits save_task_result: a new connection issues the UPDATE
FlowBeginSave(p) ==
    /\ pollerPc[p] = "flow"
    /\ flowWrites[p] # <<>>
    /\ pollerPc' = [pollerPc EXCEPT ![p] = "saving"]
    /\ UNCHANGED <<deployment, todolist, rowLock, bundle, flowWrites>>
    /\ UNCHANGED <<flowVars, diffVars, fbVars, watchVars, utilVars>>

\* database.save_task_result: the UPDATE of the new connection gets the row
\* lock once no other transaction holds it, then commit and close
FlowSaveTaskResult(p) ==
    /\ pollerPc[p] = "saving"
    /\ rowLock[bundle[p]] = None
    /\ todolist' = [todolist EXCEPT ![bundle[p]] =
                      IF Head(flowWrites[p]) = "final" THEN SaveFinalResult(@)
                      ELSE SaveIntermediateResult(@)]
    /\ flowWrites' = [flowWrites EXCEPT ![p] = Tail(@)]
    /\ pollerPc' = [pollerPc EXCEPT ![p] = "flow"]
    /\ UNCHANGED <<deployment, rowLock, bundle>>
    /\ UNCHANGED <<flowVars, diffVars, fbVars, watchVars, utilVars>>

\* the flow raises out of kickoff_async: except branch of process_new_task
FlowRaises(p) ==
    /\ pollerPc[p] = "flow"
    /\ StoreDraftAndClose(p, "{}")
    /\ UNCHANGED <<flowVars, diffVars, fbVars, watchVars, utilVars>>

\* kickoff_async returns after the last write: the result is stored as draft
FlowReturns(p) ==
    /\ pollerPc[p] = "flow"
    /\ flowWrites[p] = <<>>
    /\ StoreDraftAndClose(p, "result")
    /\ UNCHANGED <<flowVars, diffVars, fbVars, watchVars, utilVars>>

\* one step of the polling loop of poller p (start_todolist_polling)
PollerStep(p) ==
    \/ FetchPendingTasks(p)
    \/ FetchPendingTaskSelect(p)
    \/ FetchPendingTaskUpdate(p)
    \/ KickoffFlow(p)
    \/ FlowBeginSave(p)
    \/ FlowSaveTaskResult(p)
    \/ FlowRaises(p)
    \/ FlowReturns(p)

NextPoll == \E p \in Pollers : PollerStep(p)

(***************************************************************************)
(* The line diff of the feedback analysis (feedback/diff_util.py).         *)
(*                                                                         *)
(* A text is a sequence of characters, a line a sequence of characters     *)
(* without line break.  difflib.unified_diff is modelled by what it does   *)
(* for n = 0 and lineterm = '': SequenceMatcher's matching blocks, then    *)
(* the two file header lines and, per changed range, a hunk header, the    *)
(* deleted lines marked '-' and the inserted lines marked '+'.             *)
(***************************************************************************)

Alphabet == {"a", "+", "-", "\n"}
Texts == SeqsUpTo(Alphabet, MaxTextLen)

\* str.splitlines(): the line break ends a line, no empty last line
RECURSIVE SplitLines(_, _)
SplitLines(s, cur) ==
    IF s = <<>> THEN (IF cur = <<>> THEN <<>> ELSE <<cur>>)
    ELSE IF Head(s) = "\n" THEN <<cur>> \o SplitLines(Tail(s), <<>>)
    ELSE SplitLines(Tail(s), Append(cur, Head(s)))

\* str.startswith
StartsWith(line, prefix) ==
    Len(line) >= Len(prefix) /\ SubSeq(line, 1, Len(prefix)) = prefix

\* SequenceMatcher.find_longest_match on a[alo:ahi], b[blo:bhi] (1-based,
\* ahi and bhi exclusive): the longest common block; of those the one that
\* starts earliest in a, and of those the one that starts earliest in b
FindLongestMatch(a, b, alo, ahi, blo, bhi) ==
    LET M == {m \in (alo .. ahi - 1) \X (blo .. bhi - 1) \X (1 .. ahi - alo) :
                /\ m[1] + m[3] <= ahi
                /\ m[2] + m[3] <= bhi
                /\ \A t \in 0 .. m[3] - 1 : a[m[1] + t] = b[m[2] + t]}
    IN  IF M = {} THEN <<alo, blo, 0>>
        ELSE CHOOSE m \in M : \A n \in M :
                \/ m[3] > n[3]
                \/ m[3] = n[3] /\ m[1] < n[1]
                \/ m[3] = n[3] /\ m[1] = n[1] /\ m[2] <= n[2]

\* SequenceMatcher.get_matching_blocks: the longest match, then the same to
\* its left and to its right
RECURSIVE MatchingBlocks(_, _, _, _, _, _)
MatchingBlocks(a, b, alo, ahi, blo, bhi) ==
    LET m == FindLongestMatch(a, b, alo, ahi, blo, bhi)
    IN  IF m[3] = 0 THEN <<>>
        ELSE (IF alo < m[1] /\ blo < m[2]
              THEN MatchingBlocks(a, b, alo, m[1], blo, m[2]) ELSE <<>>)
             \o <<m>>
             \o (IF m[1] + m[3] < ahi /\ m[2] + m[3] < bhi
                 THEN MatchingBlocks(a, b, m[1] + m[3], ahi, m[2] + m[3], bhi) ELSE <<>>)

HunkHeader == <<"@", "@">>
FileHeaders == << <<"-", "-", "-", " ">>, <<"+", "+", "+", " ">> >>

\* one group of get_grouped_opcodes(0): a[i:i2] is replaced by b[j:j2]
Hunk(a, b, i, i2, j, j2) ==
    IF i = i2 /\ j = j2 THEN <<>>
    ELSE <<HunkHeader>>
         \o [x \in 1 .. (i2 - i) |-> <<"-">> \o a[i + x - 1]]
         \o [x \in 1 .. (j2 - j) |-> <<"+">> \o b[j + x - 1]]

\* the hunks between the matching blocks, from a[i], b[j] on
RECURSIVE Hunks(_, _, _, _, _)
Hunks(a, b, blocks, i, j) ==
    IF blocks = <<>> THEN Hunk(a, b, i, Len(a) + 1, j, Len(b) + 1)
    ELSE LET m == Head(blocks)
         IN  Hunk(a, b, i, m[1], j, m[2])
             \o Hunks(a, b, Tail(blocks), m[1] + m[3], m[2] + m[3])

\* list(difflib.unified_diff(a, b, lineterm='', n=0))
UnifiedDiff(a, b) ==
    LET hunks == Hunks(a, b, MatchingBlocks(a, b, 1, Len(a) + 1, 1, Len(b) + 1), 1, 1)
    IN  IF hunks = <<>> THEN <<>> ELSE FileHeaders \o hunks

\* line.startswith('+') and not line.startswith('+++')
IsInsertion(line) == StartsWith(line, <<"+">>) /\ ~StartsWith(line, <<"+", "+", "+">>)

\* line.startswith('-') and not line.startswith('---')
IsDeletion(line) == StartsWith(line, <<"-">>) /\ ~StartsWith(line, <<"-", "-", "-">>)

\* [line[1:] for the lines of diff that pass]
RECURSIVE Stripped(_)
Stripped(lines) ==
    IF lines = <<>> THEN <<>> ELSE <<Tail(Head(lines))>> \o Stripped(Tail(lines))

NoChanges == [insertions |-> <<>>, deletions |-> <<>>, has_changes |-> FALSE]

\* original_lines = (original or '').splitlines()
OriginalLines(orig) == SplitLines(orig, <<>>)

\* mutant: the lines of modified keep an empty last line after a final line
\* break, as modified.split('\n') keeps it
ModifiedLinesKeepLastBreak(modi) ==
    SplitLines(modi, <<>>) \o (IF modi # <<>> /\ modi[Len(modi)] = "\n" THEN << <<>> >> ELSE <<>>)

\* modified_lines = (modified or '').splitlines()
ModifiedLines(modi) == SplitLines(modi, <<>>)

extract_changes(orig, modi) ==
    IF orig = <<>> /\ modi = <<>> THEN NoChanges
    ELSE LET diff == UnifiedDiff(OriginalLines(orig), ModifiedLines(modi))
             insertions == Stripped(SelectSeq(diff, IsInsertion))
             deletions == Stripped(SelectSeq(diff, IsDeletion))
         IN  [insertions |-> insertions, deletions |-> deletions,
              has_changes |-> insertions # <<>> \/ deletions # <<>>]

InitDiff ==
    /\ original \in Texts
    /\ modified \in Texts
    /\ changes = <<>>

\* a call extract_changes(original, modified)
ExtractChanges ==
    /\ changes = <<>>
    /\ changes' = <<extract_changes(original, modified)>>
    /\ UNCHANGED <<original, modified>>
    /\ UNCHANGED <<flowVars, pollVars, fbVars, watchVars, utilVars>>

NextDiff == ExtractChanges

(***************************************************************************)
(* The comparison of a draft with the final output and the feedback        *)
(* generation (feedback/diff_util.py, feedback/agent_feedback_analyzer.py, *)
(* polling_manager._analyze_changes).                                      *)
(*                                                                         *)
(* A JSON document is its parsed value, or malformed.  A draft holds at    *)
(* most the key 'reports'; an output is the sequence of its top-level      *)
(* containers in document order, each a dict from form keys to texts.      *)
(***************************************************************************)
FormKeys == {"sec1", "sec2"}
ReportTexts == {<<"a", "\n", "b">>, <<"a", "\n", "c">>, <<"a", "\n", "b", "\n">>}
ReportMaps == UNION {[S -> ReportTexts] : S \in SUBSET FormKeys}
MalformedJson == [valid |-> FALSE, data |-> <<>>]
DraftDocs == {[valid |-> TRUE, data |-> [reports |-> m]] : m \in ReportMaps}
                \cup {[valid |-> TRUE, data |-> EmptyDict], MalformedJson}
OutputDocs == {[valid |-> TRUE, data |-> cs] : cs \in SeqsUpTo(ReportMaps, MaxContainers)}
                \cup {MalformedJson}

\* dict.get(key, "")
GetOrEmpty(d, k) == IF k \in DOMAIN d THEN d[k] ELSE <<>>

\* _extract_draft_contents: a parse error yields {}
ExtractDraftContents(doc) ==
    IF doc.valid /\ "reports" \in DOMAIN doc.data THEN doc.data.reports ELSE EmptyDict

\* the loop of _extract_output_contents over the top-level containers: a
\* later container overrides an earlier one
RECURSIVE FindInContainers(_, _, _)
FindInContainers(containers, target_form_keys, result) ==
    IF containers = <<>> THEN result
    ELSE LET main_value == Head(containers)
             found == [k \in (DOMAIN main_value) \cap target_form_keys |-> main_value[k]]
         IN  FindInContainers(Tail(containers), target_form_keys, DictMerge(result, found))

\* mutant: the text of an output that does not parse is taken as the content
\* of every target key
ExtractOutputContentsKeepsRawText(doc, target_form_keys) ==
    IF doc.valid THEN FindInContainers(doc.data, target_form_keys, EmptyDict)
    ELSE [k \in target_form_keys |-> <<"{">>]

\* _extract_output_contents: a parse error yields {}
ExtractOutputContents(doc, target_form_keys) ==
    IF doc.valid THEN FindInContainers(doc.data, target_form_keys, EmptyDict) ELSE EmptyDict

\* the lines of a list that pass `if line.strip()`
NonBlank(line) == line # <<>>

\* _create_simple_diff: the lines of the summary
CreateSimpleDiff(ch, key) ==
    << <<"===", key>> >>
    \o (IF ch.deletions # <<>>
        THEN << <<"- deleted">> >> \o SelectSeq(ch.deletions, NonBlank) ELSE <<>>)
    \o (IF ch.insertions # <<>>
        THEN << <<"+ added">> >> \o SelectSeq(ch.insertions, NonBlank) ELSE <<>>)

\* mutant: a comparison is recorded for every key whose contents differ
RecordsComparisonAlways(d, o) == d # o

\* the two tests of the loop body: the contents differ and extract_changes
\* reports changes
RecordsComparison(d, o) == d # o /\ extract_changes(d, o).has_changes

\* the loop `for form_key in all_keys` over the keys in iteration order
RECURSIVE Comparisons(_, _, _)
Comparisons(order, draft_reports, output_reports) ==
    IF order = <<>> THEN <<>>
    ELSE LET form_key == Head(order)
             draft_content == GetOrEmpty(draft_reports, form_key)
             output_content == GetOrEmpty(output_reports, form_key)
             ch == extract_changes(draft_content, output_content)
         IN  (IF RecordsComparison(draft_content, output_content)
              THEN <<[key |-> form_key, draft_content |-> draft_content,
                      output_content |-> output_content, changes |-> ch,
                      diff_summary |-> CreateSimpleDiff(ch, form_key)]>>
              ELSE <<>>)
             \o Comparisons(Tail(order), draft_reports, output_reports)

\* '\n\n'.join(unified_diffs): the summaries with a separator between them
RECURSIVE JoinSummaries(_)
JoinSummaries(comps) ==
    IF comps = <<>> THEN <<>>
    ELSE comps[1].diff_summary
         \o (IF Len(comps) = 1 THEN <<>> ELSE << <<"\n\n">> >> \o JoinSummaries(Tail(comps)))

\* the orders in which a set of keys can be iterated
Orders(S) == {o \in [1 .. Cardinality(S) -> S] : Range(o) = S}

NoComparison == [unified_diff |-> <<>>, comparisons |-> <<>>]

\* all_keys of compare_report_changes
AllKeys(draft_doc, output_doc) ==
    LET draft_reports == ExtractDraftContents(draft_doc)
    IN  (DOMAIN draft_reports) \cup DOMAIN ExtractOutputContents(output_doc, DOMAIN draft_reports)

compare_report_changes(draft_doc, output_doc, order) ==
    LET draft_reports == ExtractDraftContents(draft_doc)
        output_reports == ExtractOutputContents(output_doc, DOMAIN draft_reports)
        comps == Comparisons(order, draft_reports, output_reports)
    IN  IF DOMAIN draft_reports = {} THEN NoComparison
        ELSE [unified_diff |-> JoinSummaries(comps), comparisons |-> comps]

\* the insertions and deletions of all comparisons, as
\* generate_feedback_from_diff_result collects them
RECURSIVE AllInsertions(_)
AllInsertions(comps) ==
    IF comps = <<>> THEN <<>> ELSE comps[1].changes.insertions \o AllInsertions(Tail(comps))

RECURSIVE AllDeletions(_)
AllDeletions(comps) ==
    IF comps = <<>> THEN <<>> ELSE comps[1].changes.deletions \o AllDeletions(Tail(comps))

AggregatedChanges(dr) ==
    LET ins == AllInsertions(dr.comparisons)
        del == AllDeletions(dr.comparisons)
    IN  [insertions |-> ins, deletions |-> del, has_changes |-> ins # <<>> \/ del # <<>>]

\* mutant: the generation runs whatever the comparison found
SkipsFeedbackNever(dr) == FALSE

\* `if not diff_result.get('unified_diff'): return []`
SkipsFeedback(dr) == dr.unified_diff = <<>>

\* what the generation call can meet: a failed request, a reply that is not
\* JSON, a JSON list of feedback records (possibly empty), a JSON object
LlmOutcomes == {"request_failed", "malformed_json", "empty_list", "feedbacks", "json_object"}

AgentFeedback == [agent |-> "agent1", feedback |-> "fb"]
\* the result of a call: what it returned, or that it raised; is_list tells a
\* JSON list from a JSON object, whose iteration yields its keys
Returned(v) == [raised |-> FALSE, is_list |-> TRUE, value |-> v]
ReturnedObject(keys) == [raised |-> FALSE, is_list |-> FALSE, value |-> keys]
Raised == [raised |-> TRUE, is_list |-> TRUE, value |-> <<>>]

\* mutant: a reply that is not JSON is handed on as one raw feedback record
CallOpenAIForFeedbackKeepsRawReply(outcome) ==
    CASE outcome = "request_failed" -> Returned(<<>>)
      [] outcome = "malformed_json" -> Returned(<<[agent |-> "agent1", feedback |-> "raw"]>>)
      [] outcome = "empty_list"     -> Returned(<<>>)
      [] outcome = "feedbacks"      -> Returned(<<AgentFeedback>>)
      [] outcome = "json_object"    -> ReturnedObject(<<"feedbacks">>)

\* _call_openai_for_feedback: the request and json.loads sit in one try whose
\* handler returns []
CallOpenAIForFeedback(outcome) ==
    CASE outcome = "request_failed" -> Returned(<<>>)
      [] outcome = "malformed_json" -> Returned(<<>>)
      [] outcome = "empty_list"     -> Returned(<<>>)
      [] outcome = "feedbacks"      -> Returned(<<AgentFeedback>>)
      [] outcome = "json_object"    -> ReturnedObject(<<"feedbacks">>)

\* the statements after the call: `for fb in feedback_list: fb.get(...)` raises
\* on the keys of a JSON object
AfterCall(r) ==
    IF r.raised THEN r
    ELSE IF r.value = <<>> \/ r.is_list THEN r
    ELSE Raised

\* the `except Exception: return []` of generate_feedback_from_diff_result
ExceptReturnsEmpty(r) == IF r.raised THEN Returned(<<>>) ELSE r

InitFeedback ==
    /\ draft_json \in DraftDocs
    /\ output_json \in OutputDocs
    /\ diff_result = <<>>
    /\ fbPc = "fetched"
    /\ llmOutcome = "none"
    /\ llmCalls = 0
    /\ feedback_list = <<>>
    /\ fbRaised = FALSE
    /\ fbColumn = "{}"

\* compare_report_changes called on its own, as test_system_diff.py does
CompareReportChanges ==
    /\ fbPc = "fetched"
    /\ \E order \in Orders(AllKeys(draft_json, output_json)) :
          diff_result' = <<compare_report_changes(draft_json, output_json, order)>>
    /\ fbPc' = "compared"
    /\ UNCHANGED <<draft_json, output_json, llmOutcome, llmCalls, feedback_list, fbRaised,
                   fbColumn>>
    /\ UNCHANGED <<flowVars, pollVars, diffVars, watchVars, utilVars>>

\* generate_feedback_from_diff_result up to the generation call; get_all_agents
\* may raise
GenerateFeedbackFromDiffResult ==
    /\ fbPc = "compared"
    /\ IF SkipsFeedback(diff_result[1])
       THEN /\ fbPc' = "returned"
            /\ feedback_list' = <<>>
            /\ fbRaised' = FALSE
       ELSE \/ /\ fbPc' = "calling"
               /\ UNCHANGED <<feedback_list, fbRaised>>
            \/ /\ fbPc' = "returned"
               /\ feedback_list' = ExceptReturnsEmpty(Raised).value
               /\ fbRaised' = ExceptReturnsEmpty(Raised).raised
    /\ UNCHANGED <<draft_json, output_json, diff_result, llmOutcome, llmCalls, fbColumn>>
    /\ UNCHANGED <<flowVars, pollVars, diffVars, watchVars, utilVars>>

\* _generate_agent_feedback_with_llm and the rest of
\* generate_feedback_from_diff_result
GenerateAgentFeedbackWithLlm ==
    /\ fbPc = "calling"
    /\ \E outcome \in LlmOutcomes :
          LET r == ExceptReturnsEmpty(AfterCall(CallOpenAIForFeedback(outcome)))
          IN  /\ llmOutcome' = outcome
              /\ feedback_list' = r.value
              /\ fbRaised' = r.raised
    /\ llmCalls' = llmCalls + 1
    /\ fbPc' = "returned"
    /\ UNCHANGED <<draft_json, output_json, diff_result, fbColumn>>
    /\ UNCHANGED <<flowVars, pollVars, diffVars, watchVars, utilVars>>

\* _analyze_changes: the analyzer class it imports has no method
\* analyze_diff_and_generate_feedback, so the call raises and the handler
\* returns []
AnalyzeChanges ==
    /\ fbPc = "fetched"
    /\ \E order \in Orders(AllKeys(draft_json, output_json)) :
          diff_result' = <<compare_report_changes(draft_json, output_json, order)>>
    /\ feedback_list' = <<>>
    /\ fbRaised' = FALSE
    /\ fbPc' = "analyzed"
    /\ UNCHANGED <<draft_json, output_json, llmOutcome, llmCalls, fbColumn>>
    /\ UNCHANGED <<flowVars, pollVars, diffVars, watchVars, utilVars>>

\* process_completed_task: the UPDATE of the feedback column
StoreFeedback ==
    /\ fbPc = "analyzed"
    /\ fbColumn' = feedback_list
    /\ fbPc' = "stored"
    /\ UNCHANGED <<draft_json, output_json, diff_result, llmOutcome, llmCalls, feedback_list,
                   fbRaised>>
    /\ UNCHANGED <<flowVars, pollVars, diffVars, watchVars, utilVars>>

NextFeedback ==
    \/ CompareReportChanges
    \/ GenerateFeedbackFromDiffResult
    \/ GenerateAgentFeedbackWithLlm
    \/ AnalyzeChanges
    \/ StoreFeedback

(***************************************************************************)
(* The cancellation watch.  The routine that polls the cancellation flag   *)
(* of the work item while its flow runs is not part of the sources; it is  *)
(* modelled from the specification: on seeing the flag it ends the flow,   *)
(* which starts no further unit, while units in flight are not stopped.    *)
(***************************************************************************)
\* mutant: handling the cancellation resets the persisted draft
RowAfterCancellationCleared(r) ==
    IF lastWrite = None THEN r ELSE [r EXCEPT !.draft = EmptyDict]

\* the work item's row after the cancellation was handled
RowAfterCancellation(r) == r

\* the flow of the work item is running
FlowActive == started # <<>> /\ ~failed /\ completed # Phases

WatchCancellation ==
    /\ FlowActive
    /\ ~cancelled
    /\ cancelled' = TRUE
    /\ row' = RowAfterCancellation(row)
    /\ UNCHANGED <<started, completed, failed, ids, form_types, execution_plan, reportIdx, rstep,
                   sections, sectionsFor, taskState, pending_tasks, done_tasks,
                   section_contents, report_contents, slide_contents, text_contents, slidePos,
                   slideCalls, textCalls, ckptWrites, finalWrites, lastWrite>>
    /\ UNCHANGED <<pollVars, diffVars, fbVars, utilVars>>

(***************************************************************************)
(* The memory store of the feedback analyzer: _store_feedback_to_memory    *)
(* hands every record that names an agent and holds a feedback text to the *)
(* knowledge tool, inside one try block around the whole loop.             *)
(***************************************************************************)
\* a record of the list: the agent or the feedback text may be missing
FeedbackRecords == [agent : {"agent1", ""}, feedback : {"fb", ""}]

\* the records the loop hands to the knowledge tool
Storable(list) == {i \in DOMAIN list : list[i].agent # "" /\ list[i].feedback # ""}

\* the parameters of Mem0Tool._run and the keywords the analyzer calls it with
Mem0RunParameters == {"user_id", "query"}
StoreKeywords == {"agent_name", "mode", "content"}

\* the outcomes of one call of the knowledge tool: a keyword that is not a
\* parameter raises TypeError
Mem0Run(keywords) ==
    IF keywords \subseteq Mem0RunParameters THEN {"returned", "raised"} ELSE {"raised"}

\* the records reached by the loop when the calls end as outs says: the loop
\* ends at the first call that raises
Attempted(list, outs) ==
    {i \in Storable(list) : \A j \in Storable(list) : j < i => outs[j] = "returned"}

InitStore ==
    /\ mem_feedback_list \in SeqsUpTo(FeedbackRecords, MaxRecords)
    /\ memAttempted = {}
    /\ memLogged = FALSE
    /\ memPc = "idle"

\* _store_feedback_to_memory
StoreFeedbackToMemory ==
    /\ memPc = "idle"
    /\ \E outs \in [Storable(mem_feedback_list) -> Mem0Run(StoreKeywords)] :
          /\ memAttempted' = Attempted(mem_feedback_list, outs)
          /\ memLogged' = (\E i \in Storable(mem_feedback_list) : outs[i] = "raised")
    /\ memPc' = "done"
    /\ UNCHANGED mem_feedback_list
    /\ UNCHANGED <<sumVars, toolVars, parseVars, obsVars, extVars>>
    /\ UNCHANGED <<flowVars, pollVars, diffVars, fbVars, watchVars>>

NextStore == StoreFeedbackToMemory

(***************************************************************************)
(* The context summarizer: summarize_async prepares the three texts and    *)
(* _summarize_parallel makes one generation call per summary that has a    *)
(* text to summarize.                                                      *)
(***************************************************************************)
\* the payloads a caller may pass: None, "", " ", {}, [], [{}], a text, a
\* list of texts
Payloads == {"none", "empty_str", "blank_str", "empty_dict", "empty_list", "list_of_empty",
             "text", "list"}
ContentPayloads == {"none", "empty_dict", "text"}

\* _convert_to_string: a str is returned as it is, anything else goes
\* through json.dumps
ConvertToString(data) ==
    CASE data = "none"          -> "null"
      [] data = "empty_str"     -> ""
      [] data = "blank_str"     -> " "
      [] data = "empty_dict"    -> "{}"
      [] data = "empty_list"    -> "[]"
      [] data = "list_of_empty" -> "[{}]"
      [] data = "text"          -> "abc"
      [] data = "list"          -> "[\"abc\"]"

\* the truth value of a payload
Truthy(data) == data \notin {"none", "empty_str", "empty_dict", "empty_list"}

\* any(item for item in (feedbacks or []) if item and item != {}): the items
\* of a str are its characters
AnyItem(data) == data \in {"blank_str", "text", "list"}

\* s.strip() is empty
Blank(s) == s \in {"", " "}

OutputsStr(outputs) == ConvertToString(outputs)
FeedbacksStr(feedbacks) == IF AnyItem(feedbacks) THEN ConvertToString(feedbacks) ELSE ""
ContentsStr(contents) ==
    IF Truthy(contents) /\ contents # "empty_dict" THEN ConvertToString(contents) ELSE ""

\* the generation calls _summarize_parallel makes
SummaryCalls(outputs_str, feedbacks_str, contents_str) ==
    (IF ~Blank(outputs_str) THEN {"output"} ELSE {})
        \cup (IF ~Blank(feedbacks_str) \/ ~Blank(contents_str) THEN {"feedback"} ELSE {})

\* a generation call returns the summary or raises through handle_error
ApiOutcomes == {"summary", "raised"}

\* the summary of a text: the reply of its call, "" when no call was made
SummaryOf(name, calls, outs) == IF name \in calls THEN "summary of " \o name ELSE ""

InitSummary ==
    /\ sum_outputs \in Payloads
    /\ sum_feedbacks \in Payloads
    /\ sum_contents \in ContentPayloads
    /\ sumCalls = {}
    /\ sumResult = <<>>
    /\ sumRaised = FALSE
    /\ sumPc = "idle"

\* summarize_async with _summarize_parallel: both calls are made before
\* either is awaited; a call that raises makes the summarizer raise
SummarizeAsync ==
    /\ sumPc = "idle"
    /\ LET calls == SummaryCalls(OutputsStr(sum_outputs), FeedbacksStr(sum_feedbacks),
                                 ContentsStr(sum_contents))
       IN /\ sumCalls' = calls
          /\ \E outs \in [calls -> ApiOutcomes] :
                IF \E c \in calls : outs[c] = "raised"
                THEN sumRaised' = TRUE /\ sumResult' = <<>>
                ELSE /\ sumRaised' = FALSE
                     /\ sumResult' = <<[output_summary |-> SummaryOf("output", calls, outs),
                                        feedback_summary |-> SummaryOf("feedback", calls, outs)]>>
    /\ sumPc' = "done"
    /\ UNCHANGED <<sum_outputs, sum_feedbacks, sum_contents>>
    /\ UNCHANGED <<memVars, toolVars, parseVars, obsVars, extVars>>
    /\ UNCHANGED <<flowVars, pollVars, diffVars, fbVars, watchVars>>

NextSummary == SummarizeAsync

(***************************************************************************)
(* The tool loader of the section crews.  There are two loaders: the one   *)
(* of tools/ and the one of src/parallel/tools/, each used by the          *)
(* DynamicReportCrew of its package.                                       *)
(***************************************************************************)
ToolNames == {"mem0", " Mem0 ", "memento", "perplexity", "unknown"}
Loaders == {"tools", "parallel_tools"}
\* the tools whose construction may fail: the two search tools and the one
\* MCP server that is configured
Constructible == {"mem0", "memento", "perplexity"}

\* name.strip().lower()
ToolKey(name) == IF name = " Mem0 " THEN "mem0" ELSE name

\* _load_mem0, _load_memento, _load_mcp_tool, _load_perplexity: the tool, or
\* nothing when it is not configured or its construction raises
Load(key, ok) == IF key \in ok THEN <<key>> ELSE <<>>

\* the loop over the declared names in tools/safe_tool_loader.py
RECURSIVE LoadDeclared(_, _)
LoadDeclared(names, ok) ==
    IF names = <<>> THEN <<>>
    ELSE (IF ToolKey(Head(names)) \in {"mem0", "memento"} THEN <<>>
          ELSE Load(ToolKey(Head(names)), ok)) \o LoadDeclared(Tail(names), ok)

\* the loop over the declared names in src/parallel/tools/safe_tool_loader.py
RECURSIVE LoadDeclaredParallel(_, _)
LoadDeclaredParallel(names, ok) ==
    IF names = <<>> THEN <<>>
    ELSE (IF ToolKey(Head(names)) = "perplexity" THEN Load("perplexity", ok) ELSE <<>>)
             \o LoadDeclaredParallel(Tail(names), ok)

\* create_tools_from_names of either loader
create_tools_from_names(which, names, ok) ==
    IF which = "tools"
    THEN Load("mem0", ok) \o Load("memento", ok) \o LoadDeclared(names, ok)
    ELSE Load("mem0", ok) \o LoadDeclaredParallel(names, ok)

InitTools ==
    /\ tool_names \in SeqsUpTo(ToolNames, MaxToolNames)
    /\ loader \in Loaders
    /\ loadable \in SUBSET Constructible
    /\ tools = <<>>
    /\ toolPc = "idle"

\* DynamicReportCrew.__init__: the toolset of the section
CreateToolsFromNames ==
    /\ toolPc = "idle"
    /\ tools' = create_tools_from_names(loader, tool_names, loadable)
    /\ toolPc' = "built"
    /\ UNCHANGED <<tool_names, loader, loadable>>
    /\ UNCHANGED <<memVars, sumVars, parseVars, obsVars, extVars>>
    /\ UNCHANGED <<flowVars, pollVars, diffVars, fbVars, watchVars>>

NextTools == CreateToolsFromNames

(***************************************************************************)
(* The parse of the text crew's result.  The flow of flows/ and the flow   *)
(* of src/parallel/flows/ each have their own _parse_text_results.         *)
(***************************************************************************)
FlowPackages == {"flows", "parallel_flows"}
\* what the reply holds: a JSON object, a JSON list, a JSON number, a JSON
\* string, or a text that is not JSON; the reply may be wrapped in a code fence
Bodies == {"object", "list", "scalar", "string", "not_json"}
RawResults == [fenced : BOOLEAN, body : Bodies]
ParseFormKeys == {"t1", "t2"}

\* str(raw_result)
RawText(raw) == IF raw.fenced THEN "<fence>" \o raw.body \o "<fence>" ELSE raw.body

\* clean_json_response: the text between the fences
clean_json_response(raw) == raw.body

\* json.loads of an object: the reply holds a value for t1
ParsedObject == [k \in {"t1"} |-> <<"value", k>>]

Parsed(v) == [raised |-> FALSE, text_contents |-> v]
ParseRaised(v) == [raised |-> TRUE, text_contents |-> v]

\* _parse_text_results of flows/multi_format_flow.py
ParseTextResults(raw, contents) ==
    CASE clean_json_response(raw) = "not_json" ->
             Parsed(DictSet(contents, "text_result", <<"text", RawText(raw)>>))
      [] clean_json_response(raw) = "object" -> Parsed(DictMerge(contents, ParsedObject))
      [] OTHER ->
             Parsed(DictSet(contents, "text_result", <<"text", clean_json_response(raw)>>))

\* _parse_text_results of src/parallel/flows/multi_format_flow.py: only
\* json.JSONDecodeError is caught, and the test "form_key in parsed_results" raises
\* TypeError on a number
ParseTextResultsParallel(raw, form_keys, contents) ==
    CASE clean_json_response(raw) = "scalar" -> ParseRaised(contents)
      [] clean_json_response(raw) = "object" ->
             Parsed(DictMerge(contents,
                              [k \in form_keys |-> IF k \in DOMAIN ParsedObject
                                                   THEN ParsedObject[k]
                                                   ELSE <<RawText(raw)>>]))
      [] OTHER -> Parsed(DictMerge(contents, [k \in form_keys |-> <<RawText(raw)>>]))

InitParse ==
    /\ package \in FlowPackages
    /\ raw_result \in RawResults
    /\ parse_form_keys \in SUBSET ParseFormKeys \ {{}}
    /\ parsed_contents \in {EmptyDict, [k \in {"t1"} |-> <<"old">>]}
    /\ parsePc = "idle"

\* _generate_text_content: the parse of the reply; an exception leaves
\* generate_texts through _handle_error
ParseTextResult ==
    /\ parsePc = "idle"
    /\ LET r == IF package = "flows"
                THEN ParseTextResults(raw_result, parsed_contents)
                ELSE ParseTextResultsParallel(raw_result, parse_form_keys, parsed_contents)
       IN /\ parsed_contents' = r.text_contents
          /\ parsePc' = IF r.raised THEN "raised" ELSE "returned"
    /\ UNCHANGED <<package, raw_result, parse_form_keys>>
    /\ UNCHANGED <<memVars, sumVars, toolVars, obsVars, extVars>>
    /\ UNCHANGED <<flowVars, pollVars, diffVars, fbVars, watchVars>>

NextParse == ParseTextResult

(***************************************************************************)
(* Observability inside the flow: the emit_event calls of                  *)
(* _merge_report_sections and save_final_results and, in flows/, the       *)
(* replacement of the image placeholders before the final write.           *)
(***************************************************************************)
\* the places of the flow where an emit or the replacement happens
ObservabilitySites(pkg) ==
    IF pkg = "flows" THEN {"merge_started", "merge_completed", "image_placeholders"}
    ELSE {"merge_started", "merge_completed", "crew_completed"}

\* what goes wrong inside the call: nothing, the write to the event table,
\* the serialization of the record, the creation of the image tool, the
\* replacement in a content
Faults == {"none", "backend_write", "serialization", "image_tool", "replace"}

\* the parameters of emit_event in config/crew_event_logger.py and in
\* src/parallel/settings/crew_event_logger.py
EmitParameters(pkg) ==
    {"event_type", "data", "job_id", "crew_type", "todo_id", "proc_inst_id"}
        \cup (IF pkg = "flows" THEN {"form_id"} ELSE {})

\* the keywords the flow passes at a site
EmitKeywords(pkg, site) ==
    {"event_type", "data", "job_id", "crew_type", "todo_id", "proc_inst_id"}
        \cup (IF pkg = "parallel_flows" /\ site = "merge_completed" THEN {"form_id"} ELSE {})

\* emit_event: a keyword that is not a parameter raises TypeError at the
\* call; a failure inside the body is caught and logged
emit_event(pkg, keywords, fault) ==
    IF keywords \subseteq EmitParameters(pkg) THEN "returned" ELSE "raised"

\* _replace_image_placeholders: the whole body is inside try/except
replace_image_placeholders(fault) == "returned"

\* the outcome of the call at a site
SiteOutcome(pkg, site, fault) ==
    IF site = "image_placeholders" THEN replace_image_placeholders(fault)
    ELSE emit_event(pkg, EmitKeywords(pkg, site), fault)

InitObservability ==
    /\ obs_package \in FlowPackages
    /\ obs_site \in ObservabilitySites(obs_package)
    /\ obs_fault \in Faults
    /\ obs_backend \in BOOLEAN
    /\ obsPropagated = FALSE
    /\ obsPersisted = FALSE
    /\ obsPc = "before"

\* the call at the site: an exception leaves the phase through _handle_error,
\* which raises; the emit of crew_completed comes after the final write
ObservabilityCall ==
    /\ obsPc = "before"
    /\ obsPersisted' = (obs_site = "crew_completed")
    /\ obsPropagated' = (SiteOutcome(obs_package, obs_site, obs_fault) = "raised")
    /\ obsPc' = IF SiteOutcome(obs_package, obs_site, obs_fault) = "raised"
                THEN "failed" ELSE "after"
    /\ UNCHANGED <<obs_package, obs_site, obs_fault, obs_backend>>
    /\ UNCHANGED <<memVars, sumVars, toolVars, parseVars, extVars>>
    /\ UNCHANGED <<flowVars, pollVars, diffVars, fbVars, watchVars>>

\* the rest of the run up to the final write of save_final_results
PersistFinal ==
    /\ obsPc = "after"
    /\ obsPersisted' = TRUE
    /\ obsPc' = "finished"
    /\ UNCHANGED <<obs_package, obs_site, obs_fault, obs_backend, obsPropagated>>
    /\ UNCHANGED <<memVars, sumVars, toolVars, parseVars, extVars>>
    /\ UNCHANGED <<flowVars, pollVars, diffVars, fbVars, watchVars>>

NextObservability ==
    \/ ObservabilityCall
    \/ PersistFinal

(***************************************************************************)
(* The polling loops of polling_manager.py: start_todolist_polling and     *)
(* start_feedback_polling.  One iteration fetches, processes the bundle    *)
(* inside try/except Exception, and sleeps for the interval.  What goes    *)
(* wrong in an iteration is drawn when the iteration starts.               *)
(***************************************************************************)
LoopKinds == {"todolist", "feedback"}

\* nothing; psycopg2.connect raises; the claim statement raises; no row is
\* pending; the processing raises inside its try block; the except branch of
\* the processing raises too; closing cursor or connection raises; the task
\* of the loop is cancelled while the processing awaits
LoopFaults == {"none", "connect", "statement", "no_row", "body", "handler", "close", "cancel"}

\* fetch_pending_tasks has no try block; fetch_completed_tasks connects
\* before its try block and returns None from its except branch
FetchOutcome(kind, fault) ==
    IF fault = "connect" THEN "Exception"
    ELSE IF fault = "statement" THEN (IF kind = "todolist" THEN "Exception" ELSE "none")
    ELSE IF fault = "no_row" THEN "none"
    ELSE "bundle"

\* process_new_task / process_completed_task: try, except Exception, finally
ProcessOutcome(kind, fault) ==
    IF fault \in {"handler", "close"} THEN "Exception"
    ELSE IF fault = "cancel" THEN "CancelledError"
    ELSE "returned"

\* mutant: the loop body runs without try/except
CaughtByLoopNever(exc) == FALSE

\* except Exception as e: asyncio.CancelledError derives from BaseException
CaughtByLoop(exc) == exc = "Exception"

\* where the loop is after the outcome of a call of the try block
AfterOutcome(outcome) ==
    IF outcome = "bundle" THEN "process"
    ELSE IF outcome \in {"none", "returned"} THEN "sleep"
    ELSE IF CaughtByLoop(outcome) THEN "sleep"
    ELSE "terminated"

\* logger.error of the except clause of the loop
Logged(outcome) == IF outcome \in {"Exception", "CancelledError"} /\ CaughtByLoop(outcome)
                   THEN 1 ELSE 0

InitLoop ==
    /\ loop_kind \in LoopKinds
    /\ loop_fault = "none"
    /\ loopPc = "fetch"
    /\ loopIterations = 0
    /\ loopLogged = 0

\* tasks = await fetch_pending_tasks() / fetch_completed_tasks()
LoopFetch ==
    /\ loopPc = "fetch"
    /\ loopIterations < MaxIterations
    /\ \E fault \in LoopFaults :
          /\ loop_fault' = fault
          /\ loopPc' = AfterOutcome(FetchOutcome(loop_kind, fault))
          /\ loopLogged' = loopLogged + Logged(FetchOutcome(loop_kind, fault))
    /\ loopIterations' = loopIterations + 1
    /\ UNCHANGED loop_kind
    /\ UNCHANGED <<memVars, sumVars, toolVars, parseVars, obsVars, claimVars, ctxVars>>
    /\ UNCHANGED <<flowVars, pollVars, diffVars, fbVars, watchVars>>

\* for bundle in tasks: await process_new_task(bundle) / process_completed_task(bundle)
LoopProcess ==
    /\ loopPc = "process"
    /\ loopPc' = AfterOutcome(ProcessOutcome(loop_kind, loop_fault))
    /\ loopLogged' = loopLogged + Logged(ProcessOutcome(loop_kind, loop_fault))
    /\ UNCHANGED <<loop_kind, loop_fault, loopIterations>>
    /\ UNCHANGED <<memVars, sumVars, toolVars, parseVars, obsVars, claimVars, ctxVars>>
    /\ UNCHANGED <<flowVars, pollVars, diffVars, fbVars, watchVars>>

\* await asyncio.sleep(interval), then the next iteration
LoopSleep ==
    /\ loopPc = "sleep"
    /\ loopPc' = "fetch"
    /\ UNCHANGED <<loop_kind, loop_fault, loopIterations, loopLogged>>
    /\ UNCHANGED <<memVars, sumVars, toolVars, parseVars, obsVars, claimVars, ctxVars>>
    /\ UNCHANGED <<flowVars, pollVars, diffVars, fbVars, watchVars>>

NextLoop ==
    \/ LoopFetch
    \/ LoopProcess
    \/ LoopSleep

(***************************************************************************)
(* The feedback polling of polling_manager.py.  fetch_completed_tasks      *)
(* claims a completed row with one statement, UPDATE ... SET feedback =    *)
(* '{}' WHERE id = (SELECT ... FOR UPDATE SKIP LOCKED) RETURNING *, and    *)
(* commits; process_completed_task analyses the returned row and stores    *)
(* the feedback on the same connection.                                    *)
(***************************************************************************)
\* completed rows: the draft and the output may be empty documents
DoneRows == [status : {"DONE"}, draft : {"{}", "draft"}, output : {"NULL", "{}", "output"},
             feedback : {"NULL", "", "EMPTY"}]

InitClaim ==
    /\ done_rows \in [TodoIds -> DoneRows]
    /\ doneLock = [i \in TodoIds |-> None]
    /\ claimPc = [p \in Pollers |-> "poll"]
    /\ claimed = [p \in Pollers |-> 0]
    /\ returned = [i \in TodoIds |-> 0]

\* mutant: the mark of a claim counts as no feedback
FeedbackIsEmptyOrMark(r) == r.feedback \in {"NULL", "", "EMPTY", "{}"}

\* feedback IS NULL OR feedback::text = '' OR feedback::text = 'EMPTY'
FeedbackIsEmpty(r) == r.feedback \in {"NULL", "", "EMPTY"}

\* WHERE clause of the inner SELECT; draft IS NOT NULL holds of every row
AwaitsFeedback(r) == r.status = "DONE" /\ r.output # "NULL" /\ FeedbackIsEmpty(r)

\* ORDER BY start_date ASC LIMIT 1 FOR UPDATE SKIP LOCKED
FirstAwaiting(i) ==
    /\ AwaitsFeedback(done_rows[i]) /\ doneLock[i] = None
    /\ \A j \in TodoIds : (AwaitsFeedback(done_rows[j]) /\ doneLock[j] = None) => i <= j

\* fetch_completed_tasks, the UPDATE ... RETURNING: the row is selected,
\* locked and marked by one statement of an open transaction
ClaimStatement(p) ==
    /\ claimPc[p] = "poll"
    /\ \E i \in TodoIds :
          /\ FirstAwaiting(i)
          /\ doneLock' = [doneLock EXCEPT ![i] = p]
          /\ claimed' = [claimed EXCEPT ![p] = i]
    /\ claimPc' = [claimPc EXCEPT ![p] = "marked"]
    /\ UNCHANGED <<done_rows, returned>>
    /\ UNCHANGED <<memVars, sumVars, toolVars, parseVars, obsVars, loopVars, ctxVars>>
    /\ UNCHANGED <<flowVars, pollVars, diffVars, fbVars, watchVars>>

\* fetch_completed_tasks, connection.commit() and the return of the bundle;
\* or the except branch: the connection is closed, the mark is rolled back
\* and None is returned
ClaimCommit(p) ==
    /\ claimPc[p] = "marked"
    /\ doneLock' = [doneLock EXCEPT ![claimed[p]] = None]
    /\ \/ /\ done_rows' = [done_rows EXCEPT ![claimed[p]].feedback = "{}"]
          /\ returned' = [returned EXCEPT ![claimed[p]] = @ + 1]
          /\ claimPc' = [claimPc EXCEPT ![p] = "process"]
          /\ UNCHANGED claimed
       \/ /\ claimPc' = [claimPc EXCEPT ![p] = "poll"]
          /\ claimed' = [claimed EXCEPT ![p] = 0]
          /\ UNCHANGED <<done_rows, returned>>
    /\ UNCHANGED <<memVars, sumVars, toolVars, parseVars, obsVars, loopVars, ctxVars>>
    /\ UNCHANGED <<flowVars, pollVars, diffVars, fbVars, watchVars>>

\* not (draft_value and output_value): an empty document is falsy
LacksDocuments(r) == r.draft = "{}" \/ r.output \in {"NULL", "{}"}

\* process_completed_task: the early return, the stored feedback list
\* (_analyze_changes returns [] when it fails), or the except branch with
\* its rollback; the finally block closes cursor and connection
ProcessCompletedTask(p) ==
    /\ claimPc[p] = "process"
    /\ IF LacksDocuments(done_rows[claimed[p]])
       THEN UNCHANGED done_rows
       ELSE \/ \E fb \in {"[]", "feedbacks"} :
                  done_rows' = [done_rows EXCEPT ![claimed[p]].feedback = fb]
            \/ UNCHANGED done_rows
    /\ claimPc' = [claimPc EXCEPT ![p] = "poll"]
    /\ claimed' = [claimed EXCEPT ![p] = 0]
    /\ UNCHANGED <<doneLock, returned>>
    /\ UNCHANGED <<memVars, sumVars, toolVars, parseVars, obsVars, loopVars, ctxVars>>
    /\ UNCHANGED <<flowVars, pollVars, diffVars, fbVars, watchVars>>

\* one step of the feedback polling of poller p
ClaimStep(p) ==
    \/ ClaimStatement(p)
    \/ ClaimCommit(p)
    \/ ProcessCompletedTask(p)

NextClaim == \E p \in Pollers : ClaimStep(p)

(***************************************************************************)
(* The crew context of utils/context_manager.py, five context variables,   *)
(* and the run of a report crew (WrappedCrew.kickoff_async), which sets    *)
(* the context on entry and resets it in its finally block.                *)
(***************************************************************************)
\* the context variables at their defaults
DefaultContext ==
    [crew_type |-> "unknown", todo_id |-> None, proc_inst_id |-> None,
     form_id |-> None, form_key |-> None]

\* the context a run is started in: the default context, or the context of
\* a surrounding crew run of type planning, report or slide (a task created
\* during a run copies the context of the run)
AmbientContexts ==
    {DefaultContext}
        \cup {[crew_type |-> "planning", todo_id |-> "t0", proc_inst_id |-> "p0",
               form_id |-> None, form_key |-> None]}
        \cup [crew_type : {"report", "slide"}, todo_id : {"t0"}, proc_inst_id : {"p0"},
              form_id : {"f0"}, form_key : {"f0"}]

\* the inputs of kickoff_async: None, or a dict whose entries may be absent
NoInputs == [todo_id |-> None, proc_inst_id |-> None, report_form_id |-> None]
CrewInputs == [todo_id : {None, "t1"}, proc_inst_id : {None, "p1"},
               report_form_id : {None, "r1"}]

\* set_crew_context: the tokens hold the previous values of four variables
set_crew_context(c, crew_type, todo_id, proc_inst_id, form_id, form_key) ==
    [context |-> [crew_type |-> crew_type, todo_id |-> todo_id,
                  proc_inst_id |-> proc_inst_id, form_id |-> form_id,
                  form_key |-> IF crew_type \in {"slide", "report"} THEN form_key ELSE None],
     tokens |-> [crew_type |-> c.crew_type, todo_id |-> c.todo_id,
                 proc_inst_id |-> c.proc_inst_id, form_id |-> c.form_id]]

\* reset_crew_context: four variables are reset to their tokens, form_key
\* is set to None
reset_crew_context(c, tokens) ==
    [crew_type |-> tokens.crew_type, todo_id |-> tokens.todo_id,
     proc_inst_id |-> tokens.proc_inst_id, form_id |-> tokens.form_id,
     form_key |-> None]

\* WrappedCrew._setup_context
SetupContext(c, inputs) ==
    set_crew_context(c, "report", inputs.todo_id, inputs.proc_inst_id,
                     inputs.report_form_id, inputs.report_form_id)

InitContext ==
    /\ crew_context \in AmbientContexts
    /\ context_before = crew_context
    /\ crew_inputs \in CrewInputs
    /\ crew_tokens = <<>>
    /\ crewPc = "before"

\* kickoff_async up to the run of the crew
KickoffAsyncEnter ==
    /\ crewPc = "before"
    /\ crew_context' = SetupContext(crew_context, crew_inputs).context
    /\ crew_tokens' = <<SetupContext(crew_context, crew_inputs).tokens>>
    /\ crewPc' = "running"
    /\ UNCHANGED <<context_before, crew_inputs>>
    /\ UNCHANGED <<memVars, sumVars, toolVars, parseVars, obsVars, loopVars, claimVars>>
    /\ UNCHANGED <<flowVars, pollVars, diffVars, fbVars, watchVars>>

\* the crew returns, or raises and _handle_error raises; the finally block
\* runs _cleanup_context in both cases
KickoffAsyncExit ==
    /\ crewPc = "running"
    /\ crew_context' = reset_crew_context(crew_context, crew_tokens[1])
    /\ crewPc' \in {"returned", "raised"}
    /\ UNCHANGED <<context_before, crew_inputs, crew_tokens>>
    /\ UNCHANGED <<memVars, sumVars, toolVars, parseVars, obsVars, loopVars, claimVars>>
    /\ UNCHANGED <<flowVars, pollVars, diffVars, fbVars, watchVars>>

NextContext ==
    \/ KickoffAsyncEnter
    \/ KickoffAsyncExit

(***************************************************************************)
(* Specifications.  Each one runs one part of the program; the state of    *)
(* the other parts stays as constructed.                                   *)
(***************************************************************************)
FlowIdle == InitFlow /\ ids.proc_inst_id /\ ids.proc_form_id /\ form_types = {}

PollIdle == InitPoll /\ deployment = "polling_manager"
                     /\ \A i \in TodoIds : todolist[i].agent_mode = "DRAFT"
                                           /\ todolist[i].proc_inst_id

DiffIdle == original = <<>> /\ modified = <<>> /\ changes = <<>>

FeedbackIdle ==
    /\ draft_json = MalformedJson
    /\ output_json = MalformedJson
    /\ InitFeedback

WatchIdle == cancelled = FALSE

StoreIdle ==
    /\ mem_feedback_list = <<>>
    /\ InitStore

SummaryIdle ==
    /\ sum_outputs = "none"
    /\ sum_feedbacks = "none"
    /\ sum_contents = "none"
    /\ InitSummary

ToolIdle ==
    /\ tool_names = <<>>
    /\ loader = "tools"
    /\ loadable = Constructible
    /\ InitTools

ParseIdle ==
    /\ package = "flows"
    /\ raw_result = [fenced |-> FALSE, body |-> "object"]
    /\ parse_form_keys = {"t1"}
    /\ parsed_contents = EmptyDict
    /\ InitParse

ObservabilityIdle ==
    /\ obs_package = "flows"
    /\ obs_site = "merge_started"
    /\ obs_fault = "none"
    /\ obs_backend = FALSE
    /\ InitObservability

LoopIdle ==
    /\ loop_kind = "todolist"
    /\ InitLoop

ClaimIdle ==
    /\ done_rows = [i \in TodoIds |-> [status |-> "DONE", draft |-> "draft",
                                       output |-> "output", feedback |-> "NULL"]]
    /\ InitClaim

ContextIdle ==
    /\ crew_context = DefaultContext
    /\ crew_inputs = NoInputs
    /\ InitContext

ExtIdle == LoopIdle /\ ClaimIdle /\ ContextIdle

UtilIdle == StoreIdle /\ SummaryIdle /\ ToolIdle /\ ParseIdle /\ ObservabilityIdle /\ ExtIdle

\* one flow run over one report form with up to MaxSections sections
Init == InitFlow /\ PollIdle /\ DiffIdle /\ FeedbackIdle /\ WatchIdle /\ UtilIdle

Next == NextFlow(SingleReportPlans, SectionLists)

Spec == Init /\ [][Next]_vars

\* one flow run over up to MaxReports report forms; the work item has all
\* its identifiers and a matching form type
DepInit == InitFlow /\ ids.proc_inst_id /\ ids.proc_form_id /\ form_types = TextKeys
                    /\ PollIdle /\ DiffIdle /\ FeedbackIdle /\ WatchIdle /\ UtilIdle

DepNext == NextFlow(MultiReportPlans, ShortSectionLists)

DepSpec == DepInit /\ [][DepNext]_vars

\* concurrent pollers over the todolist table
PollInit == FlowIdle /\ InitPoll /\ DiffIdle /\ FeedbackIdle /\ WatchIdle /\ UtilIdle

PollNext == NextPoll

PollSpec == PollInit /\ [][PollNext]_vars

\* one call of extract_changes
DiffInit == FlowIdle /\ PollIdle /\ InitDiff /\ FeedbackIdle /\ WatchIdle /\ UtilIdle

DiffNext == NextDiff

DiffSpec == DiffInit /\ [][DiffNext]_vars

\* one feedback run over the draft and the output of one completed work item
FeedbackInit == FlowIdle /\ PollIdle /\ DiffIdle /\ InitFeedback /\ WatchIdle /\ UtilIdle

FeedbackNext == NextFeedback

FeedbackSpec == FeedbackInit /\ [][FeedbackNext]_vars

\* one flow run over one report form, watched for cancellation: once the flow
\* was ended only the section units in flight go on
CancelInit == InitFlow /\ ids.proc_inst_id /\ ids.proc_form_id /\ form_types = TextKeys
                       /\ PollIdle /\ DiffIdle /\ FeedbackIdle /\ WatchIdle /\ UtilIdle

CancelNext ==
    \/ ~cancelled /\ \E p \in Phases : StartPhase(p)
    \/ ~cancelled /\ CreateExecutionPlan(SingleReportPlans)
    \/ ~cancelled /\ CreateReportSections(SectionLists)
    \/ \E i \in DOMAIN taskState : SectionResolves(i)
    \/ ~cancelled /\ WaitFirstCompleted
    \/ ~cancelled /\ \E i \in done_tasks : HandleDone(i)
    \/ ~cancelled /\ MergeReportSections
    \/ ~cancelled /\ GenerateReportsReturn
    \/ ~cancelled /\ CreateSlides
    \/ ~cancelled /\ GenerateSlidesReturn
    \/ ~cancelled /\ GenerateTexts
    \/ ~cancelled /\ SaveFinalResults
    \/ WatchCancellation

CancelSpec == CancelInit /\ [][CancelNext]_vars

\* one flow run over one report form for a work item that has all its
\* identifiers and a matching form type
CollectInit == CancelInit

CollectNext == NextFlow(SingleReportPlans, SectionLists)

CollectSpec == CollectInit /\ [][CollectNext]_vars
\* one call of the memory store on a list of up to MaxRecords records
StoreInit == FlowIdle /\ PollIdle /\ DiffIdle /\ FeedbackIdle /\ WatchIdle
                      /\ InitStore /\ SummaryIdle /\ ToolIdle /\ ParseIdle
                      /\ ObservabilityIdle /\ ExtIdle

StoreSpec == StoreInit /\ [][NextStore]_vars

\* one call of the summarizer
SummaryInit == FlowIdle /\ PollIdle /\ DiffIdle /\ FeedbackIdle /\ WatchIdle
                        /\ StoreIdle /\ InitSummary /\ ToolIdle /\ ParseIdle
                        /\ ObservabilityIdle /\ ExtIdle

SummarySpec == SummaryInit /\ [][NextSummary]_vars

\* one toolset built from up to MaxToolNames declared names
ToolInit == FlowIdle /\ PollIdle /\ DiffIdle /\ FeedbackIdle /\ WatchIdle
                     /\ StoreIdle /\ SummaryIdle /\ InitTools /\ ParseIdle
                     /\ ObservabilityIdle /\ ExtIdle

ToolSpec == ToolInit /\ [][NextTools]_vars

\* one parse of a reply of the text crew
ParseInit == FlowIdle /\ PollIdle /\ DiffIdle /\ FeedbackIdle /\ WatchIdle
                      /\ StoreIdle /\ SummaryIdle /\ ToolIdle /\ InitParse
                      /\ ObservabilityIdle /\ ExtIdle

ParseSpec == ParseInit /\ [][NextParse]_vars

\* one emit or one replacement inside a run, and the rest of the run
ObservabilityInit == FlowIdle /\ PollIdle /\ DiffIdle /\ FeedbackIdle /\ WatchIdle
                              /\ StoreIdle /\ SummaryIdle /\ ToolIdle /\ ParseIdle
                              /\ InitObservability /\ ExtIdle

ObservabilitySpec == ObservabilityInit /\ [][NextObservability]_vars

\* everything but the polling loops and the crew context at rest
BaseIdle == FlowIdle /\ PollIdle /\ DiffIdle /\ FeedbackIdle /\ WatchIdle
                     /\ StoreIdle /\ SummaryIdle /\ ToolIdle /\ ParseIdle
                     /\ ObservabilityIdle

\* one polling loop over up to MaxIterations iterations
LoopInit == BaseIdle /\ InitLoop /\ ClaimIdle /\ ContextIdle

LoopSpec == LoopInit /\ [][NextLoop]_vars

\* two feedback pollers over MaxItems completed rows
ClaimInit == BaseIdle /\ LoopIdle /\ InitClaim /\ ContextIdle

ClaimSpec == ClaimInit /\ [][NextClaim]_vars

\* one run of a report crew in each context and on each inputs
ContextInit == BaseIdle /\ LoopIdle /\ ClaimIdle /\ InitContext

ContextSpec == ContextInit /\ [][NextContext]_vars

(***************************************************************************)
(* Properties of the flow.                                                 *)
(***************************************************************************)
AllPhasesCompleted == completed = Phases

\* the final merge of the report key `sections` belongs to has been done
FinalMergeDone == sectionsFor > 0 /\ reportIdx = sectionsFor + 1

\* completions recorded so far for the current report key
Handled == (DOMAIN taskState) \ (pending_tasks \cup done_tasks)

\* the contents of the sections in S, in planned order
RECURSIVE ContentsInPlannedOrder(_, _)
ContentsInPlannedOrder(from, S) ==
    IF from > Len(taskState) THEN <<>>
    ELSE (IF from \in S THEN <<ResultContent(from, taskState[from])>> ELSE <<>>)
         \o ContentsInPlannedOrder(from + 1, S)

\* the per-title map obtained when the units complete in planned order
RECURSIVE PlannedOrderContents(_, _)
PlannedOrderContents(from, contents) ==
    IF from > Len(sections) THEN contents
    ELSE PlannedOrderContents(from + 1,
            DictSet(contents, TitleOf(sections[from]), ResultContent(from, taskState[from])))

\* C1: whatever the completion order of the section units of a report key, the
\* final merged report equals the one obtained when the units complete in
\* planned order, and lists the section contents in planned order joined by
\* the separator.
C1_MergeOrderInvariance ==
    FinalMergeDone =>
        /\ report_contents[CurrentReportKey]
              = MergedContent(sections, PlannedOrderContents(1, EmptyDict))
        /\ report_contents[CurrentReportKey]
              = Join(ContentsInPlannedOrder(1, DOMAIN taskState))

\* C2: after k section completions of a report key have been recorded, the
\* checkpointed merged document holds exactly the contents of those k sections,
\* in planned order, each once, and nothing of a section not yet completed.
C2_CheckpointExactlyCompleted ==
    (/\ Running("generate_reports")
     /\ rstep \in {"collect", "merge"}
     /\ ids.todo_id /\ ids.proc_form_id
     /\ Handled # {})
        => row.draft[CurrentReportKey] = Join(ContentsInPlannedOrder(1, Handled))

\* C3: the phases start in the fixed order create_execution_plan,
\* generate_reports, generate_slides, generate_texts, save_final_results, and a
\* phase starts only after its predecessor has completed.
C3_PhaseOrder ==
    /\ Len(started) <= Len(PhaseOrder)
    /\ \A i \in DOMAIN started : started[i] = PhaseOrder[i]
    /\ \A i \in DOMAIN started : i > 1 => started[i - 1] \in completed

C3_Witness == started = PhaseOrder /\ AllPhasesCompleted /\ ckptWrites > 0

SlideForms == IF "create_execution_plan" \in completed THEN execution_plan.slide_phase ELSE <<>>
TextForms == IF "create_execution_plan" \in completed THEN execution_plan.text_phase ELSE <<>>
Produced(X) == X \in DOMAIN report_contents

C5_FinalWriteExactlyOnceAsStated ==
    AllPhasesCompleted => (finalWrites = 1 /\ lastWrite = "final")

\* C5 (amended): the final persistence is performed at most once per run; a run
\* in which all phases complete without error performs it exactly once when
\* todo_id and proc_inst_id are set and at least one report, slide or text
\* content exists, and not at all otherwise; when performed it is the last
\* persistence write of the run, after all intermediate checkpoints.
C5_FinalWriteExactlyOnce ==
    /\ finalWrites <= 1
    /\ finalWrites = 1 => (lastWrite = "final" /\ AllPhasesCompleted)
    /\ AllPhasesCompleted =>
          finalWrites = (IF /\ ids.todo_id /\ ids.proc_inst_id
                            /\ (DOMAIN report_contents) \cup (DOMAIN slide_contents)
                                  \cup (DOMAIN text_contents) # {}
                         THEN 1 ELSE 0)

C5_Witness == AllPhasesCompleted /\ finalWrites = 1 /\ ckptWrites >= 2 /\ lastWrite = "final"

\* C6: once a phase of the run has raised, no final output is written in that
\* run and the work item is not marked completed by it.
C6_NoFinalAfterFailure ==
    failed => (finalWrites = 0 /\ row.draft_status # "COMPLETED" /\ lastWrite # "final")

C6_Witness == failed /\ ckptWrites > 0 /\ "save_final_results" \in Range(started)

\* C7: a failed section unit is not retried, its content is the failure
\* placeholder, the other sections are still collected, and the final merge
\* holds the placeholder at the planned position of the failed section.
C7_FailedSectionPlaceholder ==
    FinalMergeDone =>
        \A i \in DOMAIN taskState : taskState[i] = "fail" =>
            LET doc == report_contents[CurrentReportKey] IN
               /\ Len(doc) = 2 * Len(sections) - 1
               /\ doc[2 * i - 1] = FailPlaceholder

(***************************************************************************)
(* Properties of the work queue.                                           *)
(***************************************************************************)
\* C8: under any interleaving of concurrent pollers running the claim
\* operation, no two pollers hold the same work item while it is claimed or
\* being processed.
C8_AtMostOneClaimant ==
    \A p, q \in Pollers : (p # q /\ bundle[p] # 0) => bundle[p] # bundle[q]

\* a poller holds the first row, which still matches the WHERE clause, and
\* another poller, whose SELECT skipped that locked row, holds the second
C8_Witness ==
    \E p, q \in Pollers :
        /\ p # q
        /\ bundle[p] = 1 /\ rowLock[1] = p /\ Pending(todolist[1])
        /\ bundle[q] = 2 /\ pollerPc[q] # "poll"

\* C9: a claimed work item is never left held forever, also while the flow
\* writes checkpoints for it: whatever the flow run does, processing can go
\* on to the release of the claim.  In its finite-run form: a poller that
\* holds a claim always has a next step.
C9_ClaimedItemCanProgress ==
    \A p \in Pollers : bundle[p] # 0 => ENABLED PollerStep(p)

(***************************************************************************)
(* Properties of the line diff.                                            *)
(***************************************************************************)
\* C10: for every text A, the empty text included, extract_changes(A, A)
\* returns insertions = [], deletions = [] and has_changes = false.
C10_IdenticalTextsNoChanges ==
    (changes # <<>> /\ original = modified) => changes[1] = NoChanges

\* extract_changes has returned for two identical texts of several lines
C10_Witness ==
    /\ changes # <<>>
    /\ original = modified
    /\ Len(SplitLines(original, <<>>)) >= 2

\* the lines of a hunk of the diff that carry the given marker, marker
\* stripped; the two file header lines are no lines of a hunk
MarkedLines(diff, marker) ==
    LET hunkLines == SubSeq(diff, Len(FileHeaders) + 1, Len(diff))
        Marked(line) == StartsWith(line, <<marker>>)
    IN  Stripped(SelectSeq(hunkLines, Marked))

\* number of occurrences of a line in a sequence of lines
Occurrences(lines, l) == Cardinality({i \in DOMAIN lines : lines[i] = l})

\* C11: for any two texts A and B, every line the line diff marks as inserted
\* is in insertions and every line it marks as deleted is in deletions,
\* verbatim and in order, so that A's lines without the deletions and with the
\* insertions are B's lines.
C11_ChangesReconstruct ==
    changes # <<>> =>
        LET a == OriginalLines(original)
            b == ModifiedLines(modified)
            diff == UnifiedDiff(a, b)
            ins == changes[1].insertions
            del == changes[1].deletions
        IN  /\ ins = MarkedLines(diff, "+")
            /\ del = MarkedLines(diff, "-")
            /\ \A l \in Range(a) \cup Range(b) \cup Range(ins) \cup Range(del) :
                  Occurrences(a, l) - Occurrences(del, l) + Occurrences(ins, l)
                     = Occurrences(b, l)

(***************************************************************************)
(* Properties of the comparison and of the feedback generation.            *)
(***************************************************************************)
\* the draft has a reports map and the output parses
BothParsed == /\ draft_json.valid /\ "reports" \in DOMAIN draft_json.data
              /\ output_json.valid

\* the top-level containers of the output that hold key k
Holders(k) == {i \in DOMAIN output_json.data : k \in DOMAIN output_json.data[i]}

\* the last of them in document order
LastHolder(k) == CHOOSE i \in Holders(k) : \A j \in Holders(k) : j <= i

\* the comparisons recorded for key k
ComparisonsFor(k) ==
    {i \in DOMAIN diff_result[1].comparisons : diff_result[1].comparisons[i].key = k}

SomeTextDiffers ==
    /\ BothParsed
    /\ \E k \in DOMAIN draft_json.data.reports :
          /\ Holders(k) # {}
          /\ draft_json.data.reports[k] # output_json.data[LastHolder(k)][k]

\* C13: whenever the change set aggregated over all comparisons of the diff
\* result has has_changes false, no generation call is made or about to be
\* made, and the feedback list returned is empty.
C13_NoChangesNoGenerationCall ==
    (diff_result # <<>> /\ ~AggregatedChanges(diff_result[1]).has_changes) =>
        /\ llmCalls = 0
        /\ fbPc # "calling"
        /\ fbPc \in {"returned", "analyzed", "stored"} => feedback_list = <<>>

\* generate_feedback_from_diff_result has returned for texts that differ as
\* strings but hold no changed line
C13_Witness ==
    /\ fbPc = "returned"
    /\ SomeTextDiffers
    /\ ~AggregatedChanges(diff_result[1]).has_changes
    /\ llmCalls = 0
    /\ feedback_list = <<>>

\* C17: no exception leaves the feedback generation; when the generation call
\* fails or its reply is not valid JSON the list returned is empty; and in the
\* pipeline the feedback column can be written once the analysis is over.
C17_FeedbackNeverRaises ==
    /\ ~fbRaised
    /\ (fbPc = "returned" /\ llmOutcome \in {"request_failed", "malformed_json"})
          => feedback_list = <<>>
    /\ fbPc = "analyzed" => ENABLED StoreFeedback

\* the generation call was made, its reply was not JSON, the call returned
C17_Witness ==
    /\ fbPc = "returned"
    /\ llmCalls = 1
    /\ llmOutcome = "malformed_json"
    /\ feedback_list = <<>>
    /\ ~fbRaised

(***************************************************************************)
(* Properties of a failed flow run.                                        *)
(***************************************************************************)
\* C14: when the flow run of a claimed work item fails, the step that handles
\* the failure leaves the item's persisted draft as it was, that is at the
\* most recent checkpoint.
C14_FailedRunKeepsCheckpoint ==
    [][\A p \in Pollers :
          FlowRaises(p) => todolist'[bundle[p]].draft = todolist[bundle[p]].draft]_vars

\* the phase whose exception ended the run: entered and never returned
FailedPhase(p) == failed /\ p \in Range(started) /\ p \notin completed

RECURSIVE TotalCalls(_)
TotalCalls(calls) == IF calls = <<>> THEN 0 ELSE Head(calls) + TotalCalls(Tail(calls))

\* the phases after p in the order of the flow
LaterPhases(p) ==
    {q \in Phases : \E i, j \in DOMAIN PhaseOrder :
                       PhaseOrder[i] = p /\ PhaseOrder[j] = q /\ i < j}

\* C15: when create_execution_plan, generate_slides or generate_texts raises,
\* no later phase of the run has been started and nothing final is written;
\* the failing capability is not retried: the failing slide call is the last
\* one made, a text form has been submitted at most once, and no plan is set.
C15_CapabilityFailureIsFatal ==
    \A p \in {"create_execution_plan", "generate_slides", "generate_texts"} :
        FailedPhase(p) =>
            /\ LaterPhases(p) \cap Range(started) = {}
            /\ finalWrites = 0
            /\ p = "create_execution_plan" => execution_plan = None
            /\ p = "generate_slides" => TotalCalls(slideCalls) = slidePos
            /\ p = "generate_texts" => \A i \in DOMAIN textCalls : textCalls[i] <= 1

\* the slide phase raised on a slide crew call made after a report was merged
C15_Witness ==
    /\ FailedPhase("generate_slides")
    /\ DOMAIN report_contents # {}
    /\ slidePos >= 1
    /\ TotalCalls(slideCalls) = slidePos
    /\ "generate_texts" \notin Range(started)

Collecting == Running("generate_reports") /\ rstep \in {"collect", "merge"}

\* the merge of the current report key, in planned order, of what the
\* per-title map holds
ReMerged ==
    Handled # {} =>
        report_contents[CurrentReportKey] =
            Join(PresentParts(sections, section_contents[CurrentReportKey]))

AllLaunched == DOMAIN taskState = 1 .. Len(sections)

\* every unit of the current report key has returned or raised
AllResolved == \A i \in DOMAIN taskState : taskState[i] # "running"

\* one step of the loop `while pending_tasks`: the wait or the handling of
\* one done task
LoopStep == WaitFirstCompleted \/ \E i \in done_tasks : HandleDone(i)

\* what is left for the loop to do
LoopMeasure == 2 * Cardinality(pending_tasks) + Cardinality(done_tasks)

C20_TitleEntryHoldsOwnSection ==
    (Collecting /\ rstep = "merge") =>
        \A i \in DOMAIN sections :
            LET title == TitleOf(sections[i])
                contents == section_contents[CurrentReportKey]
            IN  /\ title \in DOMAIN contents
                /\ contents[title] = ResultContent(i, taskState[i])

(***************************************************************************)
(* Properties of the order of the report keys and of the slide phase.      *)
(***************************************************************************)
\* C21: the section units of a report key are launched only for the key next
\* in plan order, when no unit of the previous key is pending or waits to be
\* handled and the final merge of the previous key has been done.
C21_ReportKeysSequential ==
    [][sectionsFor' # sectionsFor =>
          /\ sectionsFor' = sectionsFor + 1
          /\ reportIdx = sectionsFor + 1
          /\ rstep = "match"
          /\ pending_tasks = {} /\ done_tasks = {}
          /\ sectionsFor > 0 => ReportForms[sectionsFor] \in DOMAIN report_contents]_vars

\* the unit of the second report key runs, the first key is merged
C21_Witness ==
    /\ sectionsFor = 2
    /\ reportIdx = 2
    /\ \E i \in DOMAIN taskState : taskState[i] = "running"
    /\ ReportForms[1] # ReportForms[2]
    /\ ReportForms[1] \in DOMAIN report_contents
    /\ ReportForms[2] \notin DOMAIN report_contents

\* C22: when the slide phase has returned, every slide form whose dependency
\* set holds a produced report key has been invoked exactly once, also when it
\* depends on several produced report keys.
C22_SlideFormInvokedOnce ==
    "generate_slides" \in completed =>
        \A i \in DOMAIN SlideForms :
            SlideForms[i].dependencies \cap DOMAIN report_contents # {} => slideCalls[i] = 1

(***************************************************************************)
(* Further properties of the comparison.                                   *)
(***************************************************************************)
\* the first container, in document order, that holds key k
FirstHolder(k) == CHOOSE i \in Holders(k) : \A j \in Holders(k) : i <= j

\* C23: for a key of the draft that several top-level containers of the output
\* hold, the text compared with the draft is the one of the first of these
\* containers: a comparison is recorded for the key exactly when that text
\* differs from the draft's with changes, and it carries that text.
C23_FirstMatchCompared ==
    (diff_result # <<>> /\ BothParsed) =>
        \A k \in DOMAIN draft_json.data.reports :
            Cardinality(Holders(k)) > 1 =>
                LET d == draft_json.data.reports[k]
                    o == output_json.data[FirstHolder(k)][k]
                    recorded == ComparisonsFor(k)
                IN  IF d # o /\ extract_changes(d, o).has_changes
                    THEN /\ Cardinality(recorded) = 1
                         /\ \A c \in recorded :
                               diff_result[1].comparisons[c].output_content = o
                    ELSE recorded = {}

\* C24: compare_report_changes returns a result whatever the two documents
\* are; with a malformed draft the result holds no comparison and an empty
\* diff; with a malformed output nothing is taken from the output: every
\* comparison has an empty output content and no insertion.
C24_MalformedJsonTreatedAsEmpty ==
    /\ fbPc = "compared" => diff_result # <<>> /\ ~fbRaised
    /\ (diff_result # <<>> /\ ~draft_json.valid) => diff_result[1] = NoComparison
    /\ (diff_result # <<>> /\ ~output_json.valid) =>
          \A c \in DOMAIN diff_result[1].comparisons :
              /\ diff_result[1].comparisons[c].output_content = <<>>
              /\ diff_result[1].comparisons[c].changes.insertions = <<>>

\* a draft with reports was compared with an output that does not parse
C24_Witness ==
    /\ diff_result # <<>>
    /\ ~output_json.valid
    /\ draft_json.valid
    /\ diff_result[1].comparisons # <<>>
    /\ \A c \in DOMAIN diff_result[1].comparisons :
          diff_result[1].comparisons[c].changes.insertions = <<>>

(***************************************************************************)
(* Properties of the memory store, the summarizer and the tool loader.     *)
(***************************************************************************)
\* C25: when a list of feedback records was written to the memory store,
\* every record of the list that names an agent and holds a feedback text
\* was handed to the store, whatever happened to the records before it.
C25_LaterRecordsStillAttempted ==
    memPc = "done" => Storable(mem_feedback_list) \subseteq memAttempted

\* a payload that is absent or empty: None, "", {} or []
EmptyOrAbsent(data) == data \in {"none", "empty_str", "empty_dict", "empty_list"}

\* C26: after a call of the summarizer, a summary whose source payload is
\* empty or absent (the prior outputs for the output summary; the prior
\* feedback, with no current contents, for the feedback summary) had no
\* generation call and is the empty string, and a summary whose payload is
\* a text or a list of texts had its generation call.
C26_EmptyPayloadSkipsCall ==
    sumPc = "done" =>
        /\ EmptyOrAbsent(sum_outputs) =>
              /\ "output" \notin sumCalls
              /\ sumResult # <<>> => sumResult[1].output_summary = ""
        /\ (EmptyOrAbsent(sum_feedbacks) /\ EmptyOrAbsent(sum_contents)) =>
              /\ "feedback" \notin sumCalls
              /\ sumResult # <<>> => sumResult[1].feedback_summary = ""
        /\ sum_outputs \in {"text", "list"} => "output" \in sumCalls
        /\ sum_feedbacks \in {"text", "list"} => "feedback" \in sumCalls

\* C29: whatever the declared tool names are, the toolset built for a
\* section holds the knowledge-search tool (mem0) and the document-search
\* tool (memento), and no tool for a name that is not recognized.
C29_SearchToolsAlwaysIncluded ==
    toolPc = "built" =>
        /\ {"mem0", "memento"} \subseteq Range(tools)
        /\ "unknown" \notin Range(tools)

\* C27: a reply of the text crew that does not parse to a key-value object
\* does not fail the text phase: the parse returns and the text map holds
\* the reply under the default key text_result.
C27_UnparsedTextStoredUnderDefaultKey ==
    (parsePc # "idle" /\ raw_result.body # "object") =>
        /\ parsePc = "returned"
        /\ "text_result" \in DOMAIN parsed_contents
        /\ parsed_contents["text_result"][1] = "text"

(***************************************************************************)
(* Properties of a plan with an empty slide or text phase.                 *)
(***************************************************************************)
\* the phase was entered and neither returned nor is it still running
PhaseFailed(p) == p \in Range(started) /\ p \notin completed /\ failed

\* C28: in a run whose plan has no slide forms no slide content is ever
\* stored and the slide phase does not fail; in a run whose plan has no text
\* forms no text content is ever stored and the text phase does not fail;
\* when such a phase has returned the phase after it can start.
C28_EmptyPhaseLeavesMapEmpty ==
    "create_execution_plan" \in completed =>
        /\ execution_plan.slide_phase = <<>> =>
              /\ DOMAIN slide_contents = {}
              /\ slideCalls = <<>>
              /\ ~PhaseFailed("generate_slides")
              /\ ("generate_slides" \in completed /\ "generate_texts" \notin Range(started))
                    => ENABLED StartPhase("generate_texts")
        /\ execution_plan.text_phase = <<>> =>
              /\ DOMAIN text_contents = {}
              /\ textCalls = <<>>
              /\ ~PhaseFailed("generate_texts")
              /\ ("generate_texts" \in completed /\ "save_final_results" \notin Range(started))
                    => ENABLED StartPhase("save_final_results")

\* a run with reports and a plan without slide and text forms wrote its
\* final result
C28_Witness ==
    /\ "save_final_results" \in completed
    /\ execution_plan.slide_phase = <<>>
    /\ execution_plan.text_phase = <<>>
    /\ DOMAIN report_contents # {}
    /\ finalWrites = 1

(***************************************************************************)
(* Properties of the observability calls.                                  *)
(***************************************************************************)
\* C30: an emit or an image-placeholder replacement inside the flow never
\* propagates an exception, whatever goes wrong in it: its phase goes on and
\* the run that has finished has written its final payload.
C30_ObservabilityFailureSwallowed ==
    /\ ~obsPropagated
    /\ obsPc # "failed"
    /\ obsPc = "finished" => obsPersisted

(***************************************************************************)
(* Properties of the persisted checkpoint.                                 *)
(***************************************************************************)
\* C31: at every point of the section generation of a report key, the
\* persisted checkpoint holds, in the document of that key, the content of
\* every section of the key whose completion has been recorded.
C31_CheckpointHoldsCompletedSections ==
    (Collecting /\ Handled # {}) =>
        /\ lastWrite = "intermediate"
        /\ CurrentReportKey \in DOMAIN row.draft
        /\ \A i \in Handled :
              \E n \in DOMAIN row.draft[CurrentReportKey] :
                  IF taskState[i] = "ok"
                  THEN SectionOutput(i) = row.draft[CurrentReportKey][n]
                  ELSE row.draft[CurrentReportKey][n] = FailPlaceholder

(***************************************************************************)
(* Properties of a failed flow run in the polling loop.                    *)
(***************************************************************************)
\* the rows whose run ended in the except branch of process_new_task, which
\* stores json.dumps({}) as the draft
FailedRun(i) == todolist[i].draft = "{}"

CheckpointCommits(p) ==
    /\ pollerPc[p] = "saving"
    /\ Head(flowWrites[p]) = "intermediate"
    /\ pollerPc'[p] = "flow"

\* C33: a checkpoint write (final = false) changes only the draft of its
\* row: status, draft status, consumer and output of the row stay as they
\* are, no other row changes, and the claim of the row is not released.
C33_CheckpointChangesOnlyDraft ==
    [][\A p \in Pollers : CheckpointCommits(p) =>
          /\ todolist' = [todolist EXCEPT ![bundle[p]].draft = todolist'[bundle[p]].draft]
          /\ todolist'[bundle[p]].draft_status # "COMPLETED"
          /\ bundle' = bundle
          /\ rowLock' = rowLock]_vars

\* a checkpoint has been committed for a claimed row, which is still STARTED
\* and still carries its consumer
C33_Witness ==
    \E p \in Pollers :
        /\ pollerPc[p] = "flow"
        /\ bundle[p] # 0
        /\ todolist[bundle[p]].draft = "checkpoint"
        /\ todolist[bundle[p]].draft_status = "STARTED"
        /\ todolist[bundle[p]].consumer = p

\* C34: extract_changes reports has_changes = false only when both texts
\* split into the same sequence of lines.
C34_NoChangesOnlyForEqualLines ==
    (changes # <<>> /\ ~changes[1].has_changes) =>
        SplitLines(original, <<>>) = SplitLines(modified, <<>>)

(***************************************************************************)
(* Properties of the checkpoints of a run with several report keys.        *)
(***************************************************************************)
\* the report forms handled before the one whose sections are generated in
\* the next state
EarlierForms == 1 .. (sectionsFor' - 1)

\* the step keeps the merged content of key k and, when it writes a
\* checkpoint, the checkpoint holds that content under k
KeptByStep(k) ==
    /\ k \in DOMAIN report_contents
    /\ k \in DOMAIN report_contents'
    /\ report_contents'[k] = report_contents[k]
    /\ ckptWrites' # ckptWrites =>
          /\ k \in DOMAIN row'.draft
          /\ row'.draft[k] = report_contents[k]

\* C35 as stated: every step of the section generation of report key j, and
\* so every checkpoint it writes, keeps the final merged content of every
\* report form handled earlier in the run.
C35_EarlierReportsKeptAsStated ==
    [][(Running("generate_reports") /\ rstep' \in {"collect", "merge"}) =>
          \A e \in EarlierForms : KeptByStep(ReportForms[e])]_vars

\* C35 (amended): every step of the section generation of report key j, and
\* so every checkpoint it writes, keeps the final merged content of every
\* report key handled earlier in the run other than j itself; a key that the
\* plan lists again is generated again and its content replaced.
C35_EarlierReportsKept ==
    [][(Running("generate_reports") /\ rstep' \in {"collect", "merge"}) =>
          \A e \in EarlierForms :
              ReportForms[e] # ReportForms[sectionsFor'] => KeptByStep(ReportForms[e])]_vars

\* a checkpoint of the second report key has been written and holds the
\* merged content of the first key next to the content of the second
C35_Witness ==
    /\ Collecting
    /\ sectionsFor = 2
    /\ ReportForms[1] # ReportForms[2]
    /\ Handled # {}
    /\ lastWrite = "intermediate"
    /\ ckptWrites >= 2
    /\ DOMAIN row.draft = {"r1", "r2"}

(***************************************************************************)
(* Properties of the end of the report phase.                              *)
(***************************************************************************)
\* generate_reports has returned, or has raised through _handle_error
ReportPhaseEnded ==
    \/ "generate_reports" \in completed
    \/ FailedPhase("generate_reports")

\* C36: when the report phase has ended, by its return or by a fatal error,
\* no section unit it launched is still running.
C36_NoUnitRunsAfterReportPhase ==
    ReportPhaseEnded => \A i \in DOMAIN taskState : taskState[i] # "running"

(***************************************************************************)
(* Properties of the polling loops.                                        *)
(***************************************************************************)
\* C37: a polling loop never terminates because of an error: whatever raises
\* while an item is claimed or processed, the loop logs it and goes on to the
\* sleep before its next iteration; only the cancellation of its task ends it.
C37_LoopSurvivesErrors ==
    /\ loopPc = "terminated" => loop_fault = "cancel"
    /\ (loopPc = "sleep" /\ loop_fault \in {"connect", "handler", "close"}) => loopLogged > 0
    /\ loopPc = "sleep" => ENABLED LoopSleep

\* an exception left the except branch of the processing, the loop logged it
\* and has begun a later iteration
C37_Witness ==
    /\ loopLogged > 0
    /\ loopIterations >= 2
    /\ loop_fault = "handler"
    /\ loopPc = "sleep"

\* C38: under concurrent feedback pollers a completed row is returned by a
\* claim at most once, also when its analysis fails or is skipped, and no two
\* pollers hold the same row; the mark is committed with the claim.
C38_FeedbackClaimedAtMostOnce ==
    /\ \A i \in TodoIds : returned[i] <= 1
    /\ \A p, q \in Pollers : (p # q /\ claimed[p] # 0) => claimed[p] # claimed[q]
    /\ \A i \in TodoIds : returned[i] = 1 => done_rows[i].feedback \in {"{}", "[]", "feedbacks"}

\* the first row was claimed and its analysis ended without a stored
\* feedback, so the row carries the mark only; the pollers went on polling
\* and the second row has been claimed since
C38_Witness ==
    /\ returned[1] = 1
    /\ done_rows[1].feedback = "{}"
    /\ ~LacksDocuments(done_rows[1])
    /\ \A p \in Pollers : claimed[p] # 1
    /\ returned[2] = 1

(***************************************************************************)
(* Properties of the crew context.                                         *)
(***************************************************************************)
\* C39: when kickoff_async has returned or raised, crew_type, todo_id,
\* proc_inst_id, form_id and form_key each hold the value they had
\* immediately before the call.
C39_ContextRestoredOnExit ==
    crewPc \in {"returned", "raised"} => crew_context = context_before
====
